---------------------------- MODULE Spec2Model ----------------------------
(***************************************************************************)
(* Model of the capture / composite / encode / upload pipeline of the     *)
(* VideoRecorder component (src/src/components/LiveVideoStream.tsx,       *)
(* lines 287-1012).                                                        *)
(*                                                                         *)
(* One action is one JavaScript task: a handler, or the continuation of   *)
(* an async function from one await to the next.  React state read inside *)
(* a handler is the value captured by the closure of the render in which  *)
(* the handler was created; refs are shared mutable cells.                *)
(* The one-second timer behind recordingTime and recordingProgress only   *)
(* drives the display and is left out.                                    *)
(*                                                                         *)
(* The observer side is the LiveVideoStream component (lines 26-257 of    *)
(* the same file).  Its timers run against the clock `now`, in            *)
(* milliseconds.                                                           *)
(***************************************************************************)
EXTENDS Integers, Sequences, FiniteSets, TLC

(* ------------------------------ bounds -------------------------------- *)
MaxRuns == 3            \* startRecording invocations per mounted component
MaxChunks == 2          \* non-empty dataavailable payloads per recording
MaxBroadcasts == 2      \* firings of the broadcast interval
MaxSeconds == 11        \* the clock runs from 0 to MaxSeconds * 1000 ms
MaxReceived == 2        \* video-frame messages delivered to one observer

Runs == 1..MaxRuns

(* ------------------------- program constants -------------------------- *)
maxRetries == 3
\* sizes are counted in KiB: 5 * 1024 * 1024 * 1024 bytes does not fit the
\* 32-bit integers of the model checker
maxSize == 5 * 1024 * 1024

(* ------------------------------- data --------------------------------- *)
\* Recorded data is a sequence of blocks.  Blocks 1 and 2 are 1 KiB of
\* data each, block 3 is a 3 GiB stretch of data.
Blocks == {1, 2, 3}

BlockKiB(b) == IF b = 3 THEN 3 * 1024 * 1024 ELSE 1

\* event.data of a dataavailable event; <<>> is a payload of size 0
Payloads == {<<>>, <<1>>, <<2>>, <<3>>}

RECURSIVE BlobSize(_)
BlobSize(bytes) ==
  IF bytes = <<>> THEN 0 ELSE BlockKiB(Head(bytes)) + BlobSize(Tail(bytes))

RECURSIVE NewBlobReversed(_)
NewBlobReversed(parts) ==
  IF parts = <<>> THEN <<>> ELSE NewBlobReversed(Tail(parts)) \o Head(parts)

\* new Blob(chunks): the parts in array order
RECURSIVE NewBlob(_)
NewBlob(parts) ==
  IF parts = <<>> THEN <<>> ELSE Head(parts) \o NewBlob(Tail(parts))

HexDigits == <<"0","1","2","3","4","5","6","7","8","9","a","b","c","d","e","f">>

\* b.toString(16) for a byte b
ToString16(b) ==
  IF b < 16 THEN <<HexDigits[b + 1]>>
  ELSE <<HexDigits[(b \div 16) + 1], HexDigits[(b % 16) + 1]>>

\* s.padStart(2, '0')
PadStart2(s) == IF Len(s) < 2 THEN <<"0">> \o s ELSE s

\* crypto.subtle.digest: an order-sensitive 16-bit digest stands for SHA-256
RECURSIVE DigestFrom(_, _)
DigestFrom(h, bytes) ==
  IF bytes = <<>> THEN h
  ELSE DigestFrom((h * 31 + Head(bytes)) % 65536, Tail(bytes))

Digest(bytes) == DigestFrom(7, bytes)

\* Array.from(new Uint8Array(hashBuffer))
HashArray(bytes) == <<Digest(bytes) \div 256, Digest(bytes) % 256>>

calculateChecksum(blob) ==
  PadStart2(ToString16(HashArray(blob)[1])) \o PadStart2(ToString16(HashArray(blob)[2]))

(* ------------------------------ state --------------------------------- *)
TrackIds == {"sv", "sa", "wv", "wa", "cv"}
\* sv, sa: screen video / audio   wv, wa: webcam video / audio
\* cv: the canvas capture track of the composite stream
\* a track is "none" (not created), "live" or "ended" (its readyState
\* after the source ended or after track.stop())

VARIABLES
  autoStart, mandatory,        \* props
  mounted,
  isRecording, error, hasPermissions, isUploading,   \* React state
  canvasRef,                   \* canvasRef.current is not null
  permPending,                 \* checkPermissions is awaiting the queries
  nRuns,                       \* startRecording invocations so far
  sr,                          \* per run: position of startRecording
  closureIsRecording,          \* per run: isRecording seen by its closures
  sourceEnded,                 \* per run: an 'ended' listener ran while the recorder was recording
  tracks,                      \* per run: state of each media track
  surface,                     \* per run: displaySurface of the screen track
  compAudio,                   \* per run: source of the composite's audio
  recState,                    \* per run: MediaRecorder.state
  raf,                         \* per run: a drawComposite tick is scheduled
  live,                        \* per run: position of initializeLiveStreaming
  bcast,                       \* per run: broadcast interval timer is active
  chan,                        \* per run: realtime channel
  recorderRef, screenStreamRef, webcamStreamRef, compositeStreamRef,
  animationFrameRef, broadcastIntervalRef, realtimeChannelRef,
  badStop,                     \* recorder.stop() was called on an inactive recorder
  emitted,                     \* per run: event.data of the dataavailable events so far
  chunks,                      \* per run: the chunks array
  os,                          \* per run: position of recorder.onstop
  blob, checksum, retryCount, uploadSuccess,   \* per run: locals of onstop
  attempts,                    \* per run: the uploadRecording calls made
  putPath,                     \* per run: uploadData.path of the attempt in flight
  storage,                     \* objects in the exam-recordings bucket
  sessionWrites,               \* updates applied to the candidate_sessions row
  delivered,                   \* per run: onRecordingStop calls
  onErrorLog,                  \* onError calls
  started,                     \* onRecordingStart calls
  painted,                     \* per run: drawComposite has drawn on the canvas
  frameCount,                  \* per run: frameCount of initializeLiveStreaming
  broadcasts                   \* the firings of the broadcast intervals, in order

pipeVars == <<sr, closureIsRecording, sourceEnded, tracks, surface, compAudio, recState, raf, live,
              bcast, chan, recorderRef, screenStreamRef, webcamStreamRef,
              compositeStreamRef, animationFrameRef, broadcastIntervalRef,
              realtimeChannelRef, badStop, nRuns, started>>

upVars == <<emitted, chunks, os, blob, checksum, retryCount, uploadSuccess, attempts,
            putPath, storage, sessionWrites, delivered, isUploading>>

uiVars == <<autoStart, mandatory, mounted, isRecording, error, hasPermissions,
            permPending, onErrorLog, canvasRef>>

liveVars == <<painted, frameCount, broadcasts>>

VARIABLES
  now,                         \* Date.now(), in ms
  viewMounted,                 \* a LiveVideoStream component is mounted
  sessionId, isActive,         \* its props
  isStreaming, lastFrameUpdate, streamHealth, viewError,   \* its React state
  channelState,                \* its channel: "none", "joining", "joined", "errored"
  healthCheckIntervalRef,      \* its health interval is set
  nextPoll,                    \* when the health interval fires next
  closureIsStreaming,          \* isStreaming and lastFrameUpdate as seen by the
  closureLastFrameUpdate,      \*   closures created by initializeStream
  received,                    \* video-frame messages delivered so far
  statusLog,                   \* the onStreamStatusChange calls
  openChannels,                \* channels it has created and not removed
  activeTimers                 \* health intervals it has set and not cleared

viewVars == <<viewMounted, sessionId, isActive, isStreaming, lastFrameUpdate,
              streamHealth, viewError, channelState, healthCheckIntervalRef,
              nextPoll, closureIsStreaming, closureLastFrameUpdate, received,
              statusLog, openChannels, activeTimers>>

\* everything outside the VideoRecorder component
VARIABLES
  screenSettings,              \* screenTrack.getSettings(): width, height (0: not reported)
  canvasWidth, canvasHeight,   \* the canvas element's size
  pip,                         \* the overlay rectangle of the last drawComposite
  canvasPixels                 \* what the canvas shows: primary region, overlay region, border

geoVars == <<screenSettings, canvasWidth, canvasHeight, pip, canvasPixels>>

VARIABLES
  monMounted,                  \* a LiveMonitoring component is mounted
  candidate_sessions,          \* the table: id -> [status, started_at]
  activeSessions,              \* its state: the rows shown
  loading,
  requests,                    \* loadActiveSessions calls in flight
  monChannel,                  \* the 'live-monitoring' channel
  events,                      \* postgres_changes events on their way
  nextReload,                  \* when the 10 s interval fires next
  polledSince,                 \* per id: a poll issued after it completed was processed
  removed                      \* per id: a load took the completed row off the list

monVars == <<monMounted, candidate_sessions, activeSessions, loading, requests,
             monChannel, events, nextReload, polledSince, removed>>

VARIABLES
  vp9Supported,                \* MediaRecorder.isTypeSupported('video/webm;codecs=vp9,opus')
  mimeType                     \* per run: the mimeType the recorder is built with

codecVars == <<vp9Supported, mimeType>>

VARIABLES
  isDevelopment,               \* sw.js: self.location.hostname is localhost or 127.0.0.1
  swState,                     \* the life cycle of the service worker being installed
  caches,                      \* CacheStorage of the origin: name -> present?, paths stored
  cacheNames,                  \* activate: the names caches.keys() returned, still to visit
  lastFetch                    \* the last fetch event and what the handler did with it

swVars == <<isDevelopment, swState, caches, cacheNames, lastFetch>>

VARIABLES
  probeActive,                 \* LiveStreamProbe: its isActive state
  lastFrameRef,                \* Date.now() of the last video-frame message, or Null
  probeChannel,                \* its channel: "joining" or "joined"
  probeNextPoll,               \* when its health timer fires next
  probeReport                  \* the last onActiveChange call: "none", "active", "inactive"

probeVars == <<probeActive, lastFrameRef, probeChannel, probeNextPoll, probeReport>>

\* what the recorder component never touches
external == <<now, viewVars, monVars, swVars, probeVars>>

VARIABLE
  waits                        \* per run: the delays of the retry loop so far, in ms

\* what the upload does not touch, apart from the recorder's own state
uploadOutside == <<external, codecVars, geoVars>>

\* what neither the canvas set-up nor the draw loop touches
elsewhere == <<external, codecVars, waits>>

outside == <<elsewhere, geoVars>>

vars == <<pipeVars, upVars, uiVars, liveVars, outside>>

\* lastFrameUpdate === null
Null == -1

SessionIds == {1, 2}

NoTracks == [t \in TrackIds |-> "none"]

\* ---- canvas size and overlay geometry ----
\* Overlay lengths are in 1/Unit px, so that 0.2 * width and 0.75 * 0.2 * width
\* are integers; canvas sizes are in px.
Unit == 20

\* 0.2, in 1/Unit
PIP_WIDTH_RATIO == 4

MAX_CANVAS_WIDTH == 1280

\* the margin of the overlay from the right and the bottom, in px
pipMargin == 20

\* Math.round(n / d) for n >= 0, d > 0
Round(n, d) == (2 * n + d) \div (2 * d)

\* the canvas always takes the size of the screen track
canvasSizeUncapped(settings) ==
  [width |-> IF settings.width # 0 THEN settings.width ELSE 1920,
   height |-> IF settings.height # 0 THEN settings.height ELSE 1080]

\* lines 461-476: the canvas takes the size of the screen track, scaled down
\* to MAX_CANVAS_WIDTH when it is wider
canvasSize(settings) ==
  LET originalWidth == IF settings.width # 0 THEN settings.width ELSE 1920
      originalHeight == IF settings.height # 0 THEN settings.height ELSE 1080
  IN IF originalWidth > MAX_CANVAS_WIDTH
     THEN [width |-> MAX_CANVAS_WIDTH,
           height |-> Round(originalHeight * MAX_CANVAS_WIDTH, originalWidth)]
     ELSE [width |-> originalWidth, height |-> originalHeight]

\* lines 512-515
pipWidth(width) == width * PIP_WIDTH_RATIO
pipHeight(width) == (pipWidth(width) * 3) \div 4

\* the overlay is drawn against the right edge
pipXNoMargin(width) == width * Unit - pipWidth(width)

pipX(width) == width * Unit - pipWidth(width) - pipMargin * Unit
pipY(width, height) == height * Unit - pipHeight(width) - pipMargin * Unit

\* a canvas on which nothing has been drawn since it was sized
Blank == [src |-> "none", frame |-> 0]
BlankCanvas == [primary |-> Blank, overlay |-> Blank, border |-> FALSE]

\* nothing drawn yet
NoRect == [x |-> 0, y |-> 0, w |-> 0, h |-> 0]

\* the VideoRecorder component after its first render
InitComponent ==
  /\ autoStart \in BOOLEAN
  /\ mandatory \in BOOLEAN
  /\ mounted = TRUE
  /\ isRecording = FALSE
  /\ error = "null"
  /\ hasPermissions = FALSE
  /\ isUploading = FALSE
  /\ permPending = TRUE
  /\ nRuns = 0
  /\ sr = [r \in Runs |-> "none"]
  /\ closureIsRecording = [r \in Runs |-> FALSE]
  /\ sourceEnded = [r \in Runs |-> FALSE]
  /\ tracks = [r \in Runs |-> NoTracks]
  /\ surface = [r \in Runs |-> "none"]
  /\ compAudio = [r \in Runs |-> "none"]
  /\ recState = [r \in Runs |-> "none"]
  /\ raf = [r \in Runs |-> FALSE]
  /\ live = [r \in Runs |-> "none"]
  /\ bcast = [r \in Runs |-> FALSE]
  /\ chan = [r \in Runs |-> "none"]
  /\ recorderRef = 0
  /\ screenStreamRef = 0
  /\ webcamStreamRef = 0
  /\ compositeStreamRef = 0
  /\ animationFrameRef = 0
  /\ broadcastIntervalRef = 0
  /\ realtimeChannelRef = 0
  /\ badStop = FALSE
  /\ emitted = [r \in Runs |-> <<>>]
  /\ chunks = [r \in Runs |-> <<>>]
  /\ os = [r \in Runs |-> "none"]
  /\ blob = [r \in Runs |-> <<>>]
  /\ checksum = [r \in Runs |-> <<>>]
  /\ retryCount = [r \in Runs |-> 0]
  /\ uploadSuccess = [r \in Runs |-> FALSE]
  /\ attempts = [r \in Runs |-> <<>>]
  /\ putPath = [r \in Runs |-> <<>>]
  /\ storage = {}
  /\ sessionWrites = <<>>
  /\ delivered = [r \in Runs |-> <<>>]
  /\ onErrorLog = <<>>
  /\ started = 0
  /\ canvasRef = TRUE
  /\ painted = [r \in Runs |-> FALSE]
  /\ frameCount = [r \in Runs |-> 0]
  /\ broadcasts = <<>>
  /\ canvasWidth = 300
  /\ canvasHeight = 150
  /\ pip = NoRect
  /\ canvasPixels = BlankCanvas
  /\ mimeType = [r \in Runs |-> "none"]
  /\ waits = [r \in Runs |-> <<>>]

\* the candidate shares a 1920x1080 display in a browser that records VP9
InitRecorder ==
  /\ InitComponent
  /\ screenSettings = [width |-> 1920, height |-> 1080]
  /\ vp9Supported = TRUE

\* no LiveVideoStream component is mounted
NoView ==
  /\ viewMounted = FALSE
  /\ sessionId = 1
  /\ isActive = FALSE
  /\ isStreaming = FALSE
  /\ lastFrameUpdate = Null
  /\ streamHealth = "good"
  /\ viewError = "null"
  /\ channelState = "none"
  /\ healthCheckIntervalRef = FALSE
  /\ nextPoll = 0
  /\ closureIsStreaming = FALSE
  /\ closureLastFrameUpdate = Null
  /\ received = 0
  /\ statusLog = <<>>
  /\ openChannels = 0
  /\ activeTimers = 0

\* no LiveMonitoring component is mounted
NoMonitoring ==
  /\ monMounted = FALSE
  /\ candidate_sessions = <<>>
  /\ activeSessions = <<>>
  /\ loading = TRUE
  /\ requests = <<>>
  /\ monChannel = "none"
  /\ events = 0
  /\ nextReload = 0
  /\ polledSince = <<>>
  /\ removed = <<>>

\* no LiveStreamProbe component is mounted
NoProbe ==
  /\ probeActive = FALSE
  /\ lastFrameRef = Null
  /\ probeChannel = "none"
  /\ probeNextPoll = 0
  /\ probeReport = "none"

\* no service worker is being installed for the page
NoWorker ==
  /\ isDevelopment = FALSE
  /\ swState = "none"
  /\ caches = <<>>
  /\ cacheNames = {}
  /\ lastFetch = <<>>

Init ==
  /\ InitRecorder
  /\ now = 0
  /\ NoView
  /\ NoMonitoring
  /\ NoWorker
  /\ NoProbe

(* ---------------------------- React state ----------------------------- *)
\* a state setter does nothing once the component is unmounted
SetState(cur, new) == IF mounted THEN new ELSE cur

\* the error card replaces the tree that holds <canvas ref={canvasRef}>:
\* React resets the ref when a mounted component gets an error
CanvasHidden == canvasRef' = IF mounted THEN FALSE ELSE canvasRef

(* --------------------------- checkPermissions ------------------------- *)
\* continuation of checkPermissions after the permission queries
CheckPermissionsDone(ok) ==
  /\ permPending
  /\ permPending' = FALSE
  /\ hasPermissions' = IF ok THEN SetState(hasPermissions, TRUE) ELSE hasPermissions
  /\ error' = IF ok THEN error
              ELSE SetState(error, "Camera and microphone permissions are required")
  /\ IF ok THEN UNCHANGED canvasRef ELSE CanvasHidden
  /\ UNCHANGED <<pipeVars, upVars, autoStart, mandatory, mounted, isRecording,
                 onErrorLog>>
  /\ UNCHANGED <<liveVars, outside>>

(* ---------------------------- stopAllStreams -------------------------- *)
\* the tracks of the stream objects, as getTracks() returns them
ScreenTracks == {"sv", "sa"}
WebcamTracks == {"wv", "wa"}
CompositeTracks(r) ==
  {"cv"} \cup (IF compAudio[r] = "screen" THEN {"sa"}
               ELSE IF compAudio[r] = "webcam" THEN {"wa"} ELSE {})

\* stream.getTracks().forEach(track => track.stop()) for the stream of run r
StopTracks(tr, r, ids) ==
  IF r = 0 THEN tr
  ELSE [tr EXCEPT ![r] = [t \in TrackIds |->
          IF t \in ids /\ tr[r][t] = "live" THEN "ended" ELSE tr[r][t]]]

TracksAfterStopAll(tr) ==
  StopTracks(StopTracks(StopTracks(tr, screenStreamRef, ScreenTracks),
                        webcamStreamRef, WebcamTracks),
             compositeStreamRef,
             IF compositeStreamRef = 0 THEN {} ELSE CompositeTracks(compositeStreamRef))

stopAllStreams(tr) ==
  /\ raf' = [r \in Runs |-> IF r = animationFrameRef THEN FALSE ELSE raf[r]]
  /\ animationFrameRef' = 0
  /\ bcast' = [r \in Runs |-> IF r = broadcastIntervalRef THEN FALSE ELSE bcast[r]]
  /\ broadcastIntervalRef' = 0
  /\ chan' = [r \in Runs |-> IF r = realtimeChannelRef THEN "removed" ELSE chan[r]]
  /\ realtimeChannelRef' = 0
  /\ tracks' = TracksAfterStopAll(tr)
  /\ screenStreamRef' = 0
  /\ webcamStreamRef' = 0
  /\ compositeStreamRef' = 0

streamVars == <<raf, animationFrameRef, bcast, broadcastIntervalRef, chan,
                realtimeChannelRef, screenStreamRef, webcamStreamRef,
                compositeStreamRef>>

(* ----------------------------- stopRecording -------------------------- *)
\* stopRecording as seen by a closure in which isRecording has the value
\* cap.  tr is the track state at the call.  recorder.stop() on a recorder
\* that is already inactive either raises InvalidStateError (throws) or
\* returns without effect, depending on the browser.
stopRecording(cap, tr, throws) ==
  IF recorderRef # 0 /\ cap
  THEN IF recState[recorderRef] = "recording"
       THEN /\ recState' = [recState EXCEPT ![recorderRef] = "inactive"]
            /\ os' = [os EXCEPT ![recorderRef] = "queued"]
            /\ badStop' = badStop
            /\ isRecording' = SetState(isRecording, FALSE)
            /\ stopAllStreams(tr)
       ELSE /\ badStop' = TRUE
            /\ UNCHANGED <<recState, os>>
            /\ IF throws
               THEN /\ tracks' = tr
                    /\ UNCHANGED <<isRecording, streamVars>>
               ELSE /\ isRecording' = SetState(isRecording, FALSE)
                    /\ stopAllStreams(tr)
  ELSE /\ tracks' = tr
       /\ UNCHANGED <<recState, os, badStop, isRecording, streamVars>>

\* the variables stopRecording leaves alone
stopRest == <<sr, closureIsRecording, surface, compAudio, live, recorderRef,
              nRuns, started, emitted, chunks, blob, checksum, retryCount, uploadSuccess,
              attempts, putPath, storage, sessionWrites, delivered, isUploading,
              autoStart, mandatory, mounted, hasPermissions, permPending,
              onErrorLog>>

\* the Stop button is enabled for a mandatory recorder too
StopClickIgnoresMandatory(throws) ==
  /\ mounted
  /\ error = "null"
  /\ isRecording
  /\ stopRecording(isRecording, tracks, throws)
  /\ UNCHANGED <<stopRest, error, sourceEnded, canvasRef>>
  /\ UNCHANGED <<liveVars, outside>>

\* the Stop button, shown while isRecording and enabled unless mandatory
StopClick(throws) ==
  /\ mounted
  /\ error = "null"
  /\ isRecording
  /\ ~mandatory
  /\ stopRecording(isRecording, tracks, throws)
  /\ UNCHANGED <<stopRest, error, sourceEnded, canvasRef>>
  /\ UNCHANGED <<liveVars, outside>>

\* a track of the screen or webcam stream ends at its source
TrackEnded(r, t, throws) ==
  /\ t \in ScreenTracks \cup WebcamTracks
  /\ tracks[r][t] = "live"
  /\ LET tr == [tracks EXCEPT ![r][t] = "ended"] IN
       IF sr[r] = "returned"
       THEN stopRecording(closureIsRecording[r], tr, throws)
       ELSE /\ tracks' = tr
            /\ UNCHANGED <<recState, os, badStop, isRecording, streamVars>>
  /\ sourceEnded' = [sourceEnded EXCEPT ![r] = @ \/ recState[r] = "recording"]
  /\ UNCHANGED <<stopRest, error, canvasRef>>
  /\ UNCHANGED <<liveVars, outside>>

\* recorder.onerror
RecorderError(r, throws) ==
  /\ recState[r] = "recording"
  /\ error' = SetState(error, "Recording failed. Please try again.")
  /\ CanvasHidden
  /\ stopRecording(closureIsRecording[r], tracks, throws)
  /\ UNCHANGED <<stopRest, sourceEnded>>
  /\ UNCHANGED <<liveVars, outside>>

\* cleanup of the mount effect
Unmount ==
  /\ mounted
  /\ mounted' = FALSE
  /\ canvasRef' = FALSE
  /\ stopAllStreams(tracks)
  /\ UNCHANGED <<sr, closureIsRecording, sourceEnded, surface, compAudio, recState, live,
                 recorderRef, badStop, nRuns, started, upVars, autoStart,
                 mandatory, isRecording, error, hasPermissions, permPending,
                 onErrorLog>>
  /\ UNCHANGED <<liveVars, outside>>

(* ----------------------------- startRecording ------------------------- *)
\* the catch block of startRecording
Catch(r, msg) ==
  /\ sr' = [sr EXCEPT ![r] = "failed"]
  /\ error' = SetState(error, msg)
  /\ onErrorLog' = Append(onErrorLog, msg)

\* startRecording is entered: setError(null), setIsRecording(true), then the
\* 200 ms pause and the getDisplayMedia request
startRecording(r) ==
  /\ r = nRuns + 1
  /\ nRuns' = r
  /\ sr' = [sr EXCEPT ![r] = "getDisplay"]
  /\ closureIsRecording' = [closureIsRecording EXCEPT ![r] = isRecording]
  /\ error' = SetState(error, "null")
  /\ isRecording' = SetState(isRecording, TRUE)
  /\ UNCHANGED <<sourceEnded, tracks, surface, compAudio, recState, raf, live, bcast,
                 chan, recorderRef, streamVars, badStop, started, upVars, autoStart,
                 mandatory, mounted, hasPermissions, permPending, onErrorLog,
                 canvasRef>>
  /\ UNCHANGED <<liveVars, outside>>

\* the Start button, shown while not recording
StartClick(r) ==
  /\ mounted
  /\ error = "null"
  /\ ~isRecording
  /\ hasPermissions
  /\ startRecording(r)

\* the timer of the auto-start effect
AutoStartTimer(r) ==
  /\ mounted
  /\ autoStart /\ hasPermissions /\ ~isRecording /\ error = "null"
  /\ startRecording(r)

\* getDisplayMedia settles; a granted capture has the surface the user
\* picked and an audio track if the user shared audio
GetDisplayMediaDone(r, outcome, audio) ==
  /\ sr[r] = "getDisplay"
  /\ IF outcome = "denied"
     THEN /\ Catch(r, "Permission denied")
          /\ CanvasHidden
          /\ UNCHANGED <<tracks, surface>>
     ELSE /\ sr' = [sr EXCEPT ![r] = "getUser"]
          /\ tracks' = [tracks EXCEPT ![r]["sv"] = "live",
                                      ![r]["sa"] = IF audio THEN "live" ELSE "none"]
          /\ surface' = [surface EXCEPT ![r] = outcome]
          /\ UNCHANGED <<error, onErrorLog, canvasRef>>
  /\ UNCHANGED <<closureIsRecording, sourceEnded, compAudio, recState, raf, live, bcast, chan,
                 recorderRef, streamVars, badStop, nRuns, started, upVars,
                 autoStart, mandatory, mounted, isRecording, hasPermissions,
                 permPending>>
  /\ UNCHANGED <<liveVars, outside>>

\* getUserMedia settles; on success both stream refs are set
GetUserMediaDone(r, ok) ==
  /\ sr[r] = "getUser"
  /\ IF ok
     THEN /\ sr' = [sr EXCEPT ![r] = "preview"]
          /\ tracks' = [tracks EXCEPT ![r]["wv"] = "live", ![r]["wa"] = "live"]
          /\ screenStreamRef' = r
          /\ webcamStreamRef' = r
          /\ UNCHANGED <<error, onErrorLog, canvasRef>>
     ELSE /\ Catch(r, "Permission denied")
          /\ CanvasHidden
          /\ UNCHANGED <<tracks, screenStreamRef, webcamStreamRef>>
  /\ UNCHANGED <<closureIsRecording, sourceEnded, surface, compAudio, recState, raf,
                 live, bcast, chan, recorderRef, compositeStreamRef, animationFrameRef,
                 broadcastIntervalRef, realtimeChannelRef, badStop, nRuns,
                 started, upVars, autoStart, mandatory, mounted, isRecording,
                 hasPermissions, permPending>>
  /\ UNCHANGED <<liveVars, outside>>

\* the webcam preview settles (played, timed out, or failed), then the
\* canvas context is requested from canvasRef.current, or from a canvas
\* created on the spot and stored in the ref when the ref is null
PreviewDone(r, outcome) ==
  /\ sr[r] = "preview"
  /\ IF outcome = "ok"
     THEN /\ sr' = [sr EXCEPT ![r] = "loadVideos"]
          /\ canvasRef' = TRUE
          /\ canvasWidth' = canvasSize(screenSettings).width
          /\ canvasHeight' = canvasSize(screenSettings).height
          /\ canvasPixels' = BlankCanvas
          /\ UNCHANGED <<error, onErrorLog>>
     ELSE /\ Catch(r, outcome)
          /\ canvasRef' = IF mounted THEN FALSE
                           ELSE canvasRef \/ outcome = "Could not get canvas context"
          /\ UNCHANGED <<canvasWidth, canvasHeight, canvasPixels>>
  /\ UNCHANGED <<closureIsRecording, sourceEnded, tracks, surface, compAudio, recState,
                 raf, live, bcast, chan, recorderRef, streamVars, badStop, nRuns,
                 started, upVars, autoStart, mandatory, mounted, isRecording,
                 hasPermissions, permPending>>
  /\ UNCHANGED <<liveVars, elsewhere, screenSettings, pip>>

PreviewOutcomes == {"ok", "Failed to start camera preview", "Could not get canvas context"}

\* the webcam's audio is taken whenever it has a track
AudioSourceWebcamFirst(r) == IF tracks[r]["wa"] # "none" THEN "webcam" ELSE "screen"

\* VP9 is asked for whatever the runtime supports
selectMimeTypeAlwaysVp9(supported) == "video/webm;codecs=vp9,opus"

\* lines 551-557: VP9 when MediaRecorder.isTypeSupported accepts it, else VP8
selectMimeType(supported) ==
  IF supported THEN "video/webm;codecs=vp9,opus" ELSE "video/webm;codecs=vp8,opus"

\* the audio tracks added to the composite stream
AudioSource(r) == IF tracks[r]["sa"] # "none" THEN "screen" ELSE "webcam"

\* both compositing videos are ready: the draw loop, the composite stream
\* and the live channel are set up, then the recorder is built and started
VideosReady(r, ctorOk) ==
  /\ sr[r] = "loadVideos"
  /\ raf' = [raf EXCEPT ![r] = TRUE]
  /\ animationFrameRef' = r
  /\ tracks' = [tracks EXCEPT ![r]["cv"] = "live"]
  /\ compositeStreamRef' = r
  /\ chan' = [chan EXCEPT ![r] = "open"]
  /\ live' = [live EXCEPT ![r] = "subscribing"]
  /\ compAudio' = [compAudio EXCEPT ![r] = AudioSource(r)]
  /\ mimeType' = [mimeType EXCEPT ![r] = selectMimeType(vp9Supported)]
  /\ IF ctorOk
     THEN /\ recorderRef' = r
          /\ recState' = [recState EXCEPT ![r] = "recording"]
          /\ started' = started + 1
          /\ sr' = [sr EXCEPT ![r] = "returned"]
          /\ UNCHANGED <<error, onErrorLog, canvasRef>>
     ELSE /\ Catch(r, "MediaRecorder not supported")
          /\ CanvasHidden
          /\ UNCHANGED <<recorderRef, recState, started>>
  /\ UNCHANGED <<closureIsRecording, sourceEnded, surface, bcast, screenStreamRef,
                 webcamStreamRef, broadcastIntervalRef, realtimeChannelRef,
                 badStop, nRuns, upVars, autoStart, mandatory, mounted,
                 isRecording, hasPermissions, permPending>>
  /\ UNCHANGED <<liveVars, external, geoVars, vp9Supported, waits>>

(* ------------------------ initializeLiveStreaming --------------------- *)
\* channel.subscribe() settles: the channel ref and the broadcast interval
\* are installed, or the failure is logged
LiveSubscribed(r, ok) ==
  /\ live[r] = "subscribing"
  /\ IF ok
     THEN /\ live' = [live EXCEPT ![r] = "on"]
          /\ realtimeChannelRef' = r
          /\ bcast' = [bcast EXCEPT ![r] = TRUE]
          /\ broadcastIntervalRef' = r
     ELSE /\ live' = [live EXCEPT ![r] = "failed"]
          /\ UNCHANGED <<realtimeChannelRef, bcast, broadcastIntervalRef>>
  /\ UNCHANGED <<sr, closureIsRecording, sourceEnded, tracks, surface, compAudio,
                 recState, raf, chan, recorderRef, screenStreamRef, webcamStreamRef,
                 compositeStreamRef, animationFrameRef, badStop, nRuns, started,
                 upVars, uiVars>>
  /\ UNCHANGED <<liveVars, outside>>

\* what a firing of the broadcast interval can come to: the frame is
\* sent, channel.send rejects, or canvas.toDataURL throws
PublishOutcomes == {"sent", "rejected", "threw"}

BroadcastTickClearsOnFailure(r, outcome) ==
  /\ bcast[r]
  /\ Len(broadcasts) < MaxBroadcasts
  /\ canvasRef
  /\ outcome # "sent"
  /\ broadcasts' = Append(broadcasts, [run |-> r, frameNumber |-> frameCount[r],
                                       result |-> outcome])
  /\ bcast' = [bcast EXCEPT ![r] = FALSE]
  /\ UNCHANGED <<sr, closureIsRecording, sourceEnded, tracks, surface, compAudio,
                 recState, raf, live, chan, recorderRef, screenStreamRef,
                 webcamStreamRef, compositeStreamRef, animationFrameRef,
                 broadcastIntervalRef, realtimeChannelRef, badStop, nRuns, started,
                 upVars, uiVars, painted, frameCount, outside>>

\* the broadcast interval of run r fires
BroadcastTick(r, outcome) ==
  /\ bcast[r]
  /\ Len(broadcasts) < MaxBroadcasts
  /\ IF ~canvasRef
     THEN /\ broadcasts' = Append(broadcasts, [run |-> r, frameNumber |-> frameCount[r],
                                               result |-> "skipped"])
          /\ UNCHANGED frameCount
     ELSE IF outcome = "threw"
     THEN /\ broadcasts' = Append(broadcasts, [run |-> r, frameNumber |-> frameCount[r],
                                               result |-> "threw"])
          /\ UNCHANGED frameCount
     ELSE /\ frameCount' = [frameCount EXCEPT ![r] = @ + 1]
          /\ broadcasts' = Append(broadcasts, [run |-> r, frameNumber |-> frameCount'[r],
                                               result |-> outcome])
  /\ UNCHANGED <<pipeVars, upVars, uiVars, painted, outside>>

(* ------------------------------ drawComposite ------------------------- *)
\* the frames a video element may be showing when the callback runs
VideoFrames == {1, 2}

\* ctx.drawImage(video, ...): the region shows the element's current frame
drawImage(video, f) == [src |-> video, frame |-> f]

\* lines 503-525: the screen over the whole canvas when it has a frame,
\* the border, then the webcam into the overlay rectangle when it has one
composite(px, screenReady, webcamReady, fs, fw) ==
  LET afterScreen == IF screenReady
                     THEN [primary |-> drawImage("screen", fs),
                           overlay |-> drawImage("screen", fs), border |-> FALSE]
                     ELSE px
      afterBorder == [afterScreen EXCEPT !.border = TRUE]
  IN  IF webcamReady THEN [afterBorder EXCEPT !.overlay = drawImage("webcam", fw)]
      ELSE afterBorder

\* the animation frame callback of run r: it draws and requests the next
\* frame, storing the new request id in animationFrameRef; screenReady and
\* webcamReady say whether the element's readyState is at least 2, fs and
\* fw are the frames the elements hold
drawComposite(r, screenReady, webcamReady, fs, fw) ==
  /\ raf[r]
  /\ painted' = [painted EXCEPT ![r] = TRUE]
  /\ canvasPixels' = composite(canvasPixels, screenReady, webcamReady, fs, fw)
  /\ pip' = [x |-> pipX(canvasWidth), y |-> pipY(canvasWidth, canvasHeight),
              w |-> pipWidth(canvasWidth), h |-> pipHeight(canvasWidth)]
  /\ animationFrameRef' = r
  /\ UNCHANGED <<sr, closureIsRecording, sourceEnded, tracks, surface, compAudio,
                 recState, raf, live, bcast, chan, recorderRef, screenStreamRef,
                 webcamStreamRef, compositeStreamRef, broadcastIntervalRef,
                 realtimeChannelRef, badStop, nRuns, started, upVars, uiVars,
                 frameCount, broadcasts, elsewhere, screenSettings,
                 canvasWidth, canvasHeight>>

\* a callback that finds a frame in both elements
DrawTick(r) == drawComposite(r, TRUE, TRUE, 1, 1)

(* ------------------------------ MediaRecorder ------------------------- *)
ondataavailableKeepsEmpty(list, data) == Append(list, data)

\* recorder.ondataavailable
ondataavailable(list, data) == IF Len(data) > 0 THEN Append(list, data) ELSE list

\* a timeslice of the running recorder elapses
DataAvailable(r, data) ==
  /\ recState[r] = "recording"
  /\ Len(emitted[r]) < MaxChunks
  /\ emitted' = [emitted EXCEPT ![r] = Append(@, data)]
  /\ chunks' = [chunks EXCEPT ![r] = ondataavailable(chunks[r], data)]
  /\ UNCHANGED <<pipeVars, uiVars, os, blob, checksum, retryCount, uploadSuccess,
                 attempts, putPath, storage, sessionWrites, delivered, isUploading>>
  /\ UNCHANGED <<liveVars, outside>>

(* --------------------------- recorder.onstop -------------------------- *)
\* the task queued by recorder.stop(): the last data is flushed to
\* ondataavailable, then onstop builds the blob and awaits its checksum
RecorderStopped(r, data) ==
  /\ os[r] = "queued"
  /\ data = <<>> \/ Len(chunks[r]) < MaxChunks
  /\ emitted' = [emitted EXCEPT ![r] = Append(@, data)]
  /\ chunks' = [chunks EXCEPT ![r] = ondataavailable(chunks[r], data)]
  /\ blob' = [blob EXCEPT ![r] = NewBlob(chunks'[r])]
  /\ os' = [os EXCEPT ![r] = "hashing"]
  /\ UNCHANGED <<pipeVars, uiVars, checksum, retryCount, uploadSuccess, attempts,
                 putPath, storage, sessionWrites, delivered, isUploading>>
  /\ UNCHANGED <<liveVars, outside>>

FinishSkipsCallback(r, cs) ==
  /\ os' = [os EXCEPT ![r] = "done"]
  /\ UNCHANGED delivered

\* the end of onstop: onRecordingStop(blob, checksum)
Finish(r, cs) ==
  /\ os' = [os EXCEPT ![r] = "done"]
  /\ delivered' = [delivered EXCEPT ![r] = Append(@, [blob |-> blob[r], checksum |-> cs])]

\* while (!uploadSuccess && retryCount < maxRetries)
LoopContinuesOffByOne(success, retry) == ~success /\ retry <= maxRetries

LoopContinuesIgnoresSuccess(success, retry) == retry < maxRetries

LoopContinues(success, retry) == ~success /\ retry < maxRetries

\* every wait is 2000 ms
backoffMsConstant(count) == 2000

\* setTimeout(resolve, 2000 * retryCount)
backoffMs(count) == 2000 * count

\* the catch block of the retry loop after an attempt has thrown
AfterCatch(r, cs, att) ==
  /\ attempts' = [attempts EXCEPT ![r] = att]
  /\ retryCount' = [retryCount EXCEPT ![r] = @ + 1]
  /\ isUploading' = SetState(isUploading, FALSE)
  /\ IF LoopContinues(uploadSuccess[r], retryCount[r] + 1)
     THEN /\ os' = [os EXCEPT ![r] = "backoff"]
          /\ waits' = [waits EXCEPT ![r] = Append(@, backoffMs(retryCount[r] + 1))]
          /\ UNCHANGED delivered
     ELSE /\ Finish(r, cs)
          /\ UNCHANGED waits

\* blob.size > maxSize
TooLarge(b) == BlobSize(b) > maxSize

\* uploadRecording(blob, checksum) up to its first await
uploadRecording(r, cs, att) ==
  IF TooLarge(blob[r])
  THEN /\ AfterCatch(r, cs, Append(att, [bytes |-> blob[r], checksum |-> cs,
                                         result |-> "tooLarge"]))
  ELSE /\ attempts' = [attempts EXCEPT ![r] =
                         Append(att, [bytes |-> blob[r], checksum |-> cs,
                                      result |-> "pending"])]
       /\ isUploading' = SetState(isUploading, TRUE)
       /\ os' = [os EXCEPT ![r] = "put"]
       /\ UNCHANGED <<retryCount, delivered, waits>>

SetResult(att, res) == [att EXCEPT ![Len(att)].result = res]

\* calculateChecksum settles; the retry loop makes its first attempt
ChecksumDone(r) ==
  /\ os[r] = "hashing"
  /\ checksum' = [checksum EXCEPT ![r] = calculateChecksum(blob[r])]
  /\ uploadRecording(r, checksum'[r], attempts[r])
  /\ UNCHANGED <<pipeVars, uiVars, emitted, chunks, blob, uploadSuccess, putPath,
                 storage, sessionWrites>>
  /\ UNCHANGED <<liveVars, uploadOutside>>

\* `${safeName}-${new Date().toISOString()}.webm`: one name per attempt
fileName(r) == <<r, Len(attempts[r])>>

\* supabase.storage.upload settles
PutDone(r, ok) ==
  /\ os[r] = "put"
  /\ IF ok
     THEN /\ storage' = storage \cup
                 {[name |-> fileName(r), bytes |-> attempts[r][Len(attempts[r])].bytes]}
          /\ putPath' = [putPath EXCEPT ![r] = fileName(r)]
          /\ os' = [os EXCEPT ![r] = "update"]
          /\ UNCHANGED <<attempts, retryCount, delivered, isUploading, waits>>
     ELSE /\ AfterCatch(r, checksum[r], SetResult(attempts[r], "putFailed"))
          /\ UNCHANGED <<storage, putPath>>
  /\ UNCHANGED <<pipeVars, uiVars, emitted, chunks, blob, checksum, uploadSuccess,
                 sessionWrites>>
  /\ UNCHANGED <<liveVars, uploadOutside>>

\* the candidate_sessions update settles
UpdateDone(r, ok) ==
  /\ os[r] = "update"
  /\ IF ok
     THEN /\ sessionWrites' = Append(sessionWrites,
                 [run |-> r, recording_url |-> putPath[r],
                  recording_checksum |-> attempts[r][Len(attempts[r])].checksum])
          /\ uploadSuccess' = [uploadSuccess EXCEPT ![r] = TRUE]
          /\ IF LoopContinues(TRUE, retryCount[r])
             THEN uploadRecording(r, checksum[r], SetResult(attempts[r], "ok"))
             ELSE /\ attempts' = [attempts EXCEPT ![r] = SetResult(@, "ok")]
                  /\ isUploading' = SetState(isUploading, FALSE)
                  /\ Finish(r, checksum[r])
                  /\ UNCHANGED <<retryCount, waits>>
     ELSE /\ AfterCatch(r, checksum[r], SetResult(attempts[r], "updateFailed"))
          /\ UNCHANGED <<sessionWrites, uploadSuccess>>
  /\ UNCHANGED <<pipeVars, uiVars, emitted, chunks, blob, checksum, putPath, storage>>
  /\ UNCHANGED <<liveVars, uploadOutside>>

\* the pause of 2000 * retryCount ms is over; the loop tests its condition
BackoffDone(r) ==
  /\ os[r] = "backoff"
  /\ uploadRecording(r, checksum[r], attempts[r])
  /\ UNCHANGED <<pipeVars, uiVars, emitted, chunks, blob, checksum, uploadSuccess,
                 putPath, storage, sessionWrites>>
  /\ UNCHANGED <<liveVars, uploadOutside>>

(* ------------------------------- the clock ---------------------------- *)
TickMs == 1000

(* ----------------------- LiveVideoStream (observer) ------------------- *)
healthCheckMs == 5000
goodBelowMs == 3000
fairBelowMs == 10000

\* the state outside the LiveVideoStream component and the clock
notView == <<pipeVars, upVars, uiVars, liveVars, geoVars, monVars, codecVars, waits, swVars,
            probeVars>>

\* onStreamStatusChange?.(sessionId, active)
Notify(log, sid, active) == Append(log, [sessionId |-> sid, active |-> active])

\* the channel is left open
removeChannelKeeps(open, ref) == open

\* cleanupStream: if (channelRef.current) supabase.removeChannel(channelRef.current)
removeChannel(open, ref) == IF ref THEN open - 1 ELSE open

\* cleanupStream: if (healthCheckIntervalRef.current) clearInterval(...)
clearInterval(active, ref) == IF ref THEN active - 1 ELSE active

\* the body of the effect on [sessionId, isActive], run in a render with
\* props sid and act in which isStreaming and lastFrameUpdate had the values
\* seenStreaming and seenLast: initializeStream, or cleanupStream.  The
\* handlers and the interval callback that initializeStream creates keep
\* seeing those two values.
RunEffect(sid, act, seenStreaming, seenLast, log) ==
  /\ closureIsStreaming' = seenStreaming
  /\ closureLastFrameUpdate' = seenLast
  /\ openChannels' = removeChannel(openChannels, channelState # "none")
                         + (IF act THEN 1 ELSE 0)
  /\ activeTimers' = clearInterval(activeTimers, healthCheckIntervalRef)
                         + (IF act THEN 1 ELSE 0)
  /\ IF act
     THEN /\ viewError' = "null"
          /\ channelState' = "joining"
          /\ healthCheckIntervalRef' = TRUE
          /\ nextPoll' = now + healthCheckMs
          /\ statusLog' = log
     ELSE /\ channelState' = "none"
          /\ healthCheckIntervalRef' = FALSE
          /\ nextPoll' = 0
          /\ statusLog' = IF seenStreaming THEN Notify(log, sid, FALSE) ELSE log
          /\ UNCHANGED viewError

\* the parent changes sessionId or isActive: the cleanup of the previous
\* effect runs cleanupStream with the values its render saw, then the
\* effect body runs in the new render.  The component keeps nothing per
\* session id, so a changed id is taken to be one it has not had before.
PropsChange(sid, act) ==
  /\ viewMounted
  /\ <<sid, act>> # <<sessionId, isActive>>
  /\ sid >= sessionId
  /\ sessionId' = sid
  /\ isActive' = act
  /\ isStreaming' = FALSE
  /\ RunEffect(sid, act, isStreaming, lastFrameUpdate,
               IF closureIsStreaming THEN Notify(statusLog, sessionId, FALSE)
               ELSE statusLog)
  /\ UNCHANGED <<notView, now, viewMounted, lastFrameUpdate, streamHealth, received>>

\* the component is unmounted: cleanupStream; its state is discarded
UnmountView ==
  /\ viewMounted
  /\ viewMounted' = FALSE
  /\ channelState' = "none"
  /\ healthCheckIntervalRef' = FALSE
  /\ openChannels' = removeChannel(openChannels, channelState # "none")
  /\ activeTimers' = clearInterval(activeTimers, healthCheckIntervalRef)
  /\ nextPoll' = 0
  /\ statusLog' = IF closureIsStreaming THEN Notify(statusLog, sessionId, FALSE)
                  ELSE statusLog
  /\ isStreaming' = FALSE
  /\ lastFrameUpdate' = Null
  /\ streamHealth' = "good"
  /\ viewError' = "null"
  /\ closureIsStreaming' = FALSE
  /\ closureLastFrameUpdate' = Null
  /\ UNCHANGED <<notView, now, sessionId, isActive, received>>

SubscribeStatuses == {"SUBSCRIBED", "CHANNEL_ERROR", "TIMED_OUT"}

\* the callback of channel.subscribe
SubscribeStatus(status) ==
  /\ channelState = "joining"
  /\ channelState' = IF status = "SUBSCRIBED" THEN "joined" ELSE "errored"
  /\ IF status = "CHANNEL_ERROR"
     THEN /\ viewError' = "Failed to connect to live stream"
          /\ IF closureIsStreaming
             THEN /\ isStreaming' = FALSE
                  /\ statusLog' = Notify(statusLog, sessionId, FALSE)
             ELSE UNCHANGED <<isStreaming, statusLog>>
     ELSE UNCHANGED <<viewError, isStreaming, statusLog>>
  /\ UNCHANGED <<notView, now, viewMounted, sessionId, isActive, lastFrameUpdate,
                 streamHealth, healthCheckIntervalRef, nextPoll, closureIsStreaming,
                 closureLastFrameUpdate, received, openChannels, activeTimers>>

\* payload.payload.frame of a video-frame message; "" is a message without one
Frames == {"", "data:image/jpeg"}

\* the 'video-frame' handler of the channel
FrameReceived(frame) ==
  /\ channelState = "joined"
  /\ received < MaxReceived
  /\ received' = received + 1
  /\ IF frame # ""
     THEN /\ lastFrameUpdate' = now
          /\ IF ~closureIsStreaming
             THEN /\ isStreaming' = TRUE
                  /\ statusLog' = Notify(statusLog, sessionId, TRUE)
             ELSE UNCHANGED <<isStreaming, statusLog>>
     ELSE UNCHANGED <<lastFrameUpdate, isStreaming, statusLog>>
  /\ UNCHANGED <<notView, now, viewMounted, sessionId, isActive, streamHealth,
                 viewError, channelState, healthCheckIntervalRef, nextPoll,
                 closureIsStreaming, closureLastFrameUpdate, openChannels,
                 activeTimers>>

\* checkStreamHealth in a closure that sees lastFrameUpdate = last and
\* isStreaming = streaming
checkStreamHealth(last, streaming) ==
  LET timeSinceLastFrame == now - last
      poor == last = Null \/ timeSinceLastFrame >= fairBelowMs
  IN /\ streamHealth' = IF last = Null THEN "poor"
                        ELSE IF timeSinceLastFrame < goodBelowMs THEN "good"
                        ELSE IF timeSinceLastFrame < fairBelowMs THEN "fair"
                        ELSE "poor"
     /\ viewError' = IF last # Null /\ timeSinceLastFrame >= fairBelowMs
                     THEN "Stream may have disconnected" ELSE viewError
     /\ IF poor /\ streaming
        THEN /\ statusLog' = Notify(statusLog, sessionId, FALSE)
             /\ isStreaming' = FALSE
        ELSE UNCHANGED <<statusLog, isStreaming>>

\* the health interval fires
HealthPoll ==
  /\ activeTimers > 0
  /\ now = nextPoll
  /\ nextPoll' = now + healthCheckMs
  /\ checkStreamHealth(closureLastFrameUpdate, closureIsStreaming)
  /\ UNCHANGED <<notView, now, viewMounted, sessionId, isActive, lastFrameUpdate,
                 channelState, healthCheckIntervalRef, closureIsStreaming,
                 closureLastFrameUpdate, received, openChannels, activeTimers>>

\* time passes, unless an interval is due
Tick ==
  /\ now + TickMs <= MaxSeconds * 1000
  /\ activeTimers > 0 => now < nextPoll
  /\ now' = now + TickMs
  /\ UNCHANGED <<notView, viewVars>>

(* ------------------------------- behaviour ---------------------------- *)
Surfaces == {"monitor", "window", "browser"}

\* startRecording for the runs in rs; getDisplayMedia settles with an
\* outcome in gs, the preview with one in vs, every other request with a
\* result in oks
Acquire(rs, gs, vs, oks) ==
  \/ \E ok \in oks : CheckPermissionsDone(ok)
  \/ \E r \in rs : StartClick(r)
  \/ \E r \in rs : AutoStartTimer(r)
  \/ \E r \in rs, o \in gs, a \in oks : GetDisplayMediaDone(r, o, a)
  \/ \E r \in rs, ok \in oks : GetUserMediaDone(r, ok)
  \/ \E r \in rs, o \in vs : PreviewDone(r, o)
  \/ \E r \in rs, ok \in oks : VideosReady(r, ok)
  \/ \E r \in rs, ok \in oks : LiveSubscribed(r, ok)

\* the events that end or disturb a recording
Control(rs) ==
  \/ \E th \in BOOLEAN : StopClick(th)
  \/ \E r \in rs, t \in TrackIds, th \in BOOLEAN : TrackEnded(r, t, th)
  \/ \E r \in rs, th \in BOOLEAN : RecorderError(r, th)
  \/ Unmount

\* the recorder's events, with timeslice payloads in ds and flushed
\* payloads in fs, and the uploads of onstop with storage and session
\* update results in oks
Record(rs, ds, fs, oks) ==
  \/ \E r \in rs, d \in ds : DataAvailable(r, d)
  \/ \E r \in rs, d \in fs : RecorderStopped(r, d)
  \/ \E r \in rs : ChecksumDone(r)
  \/ \E r \in rs, ok \in oks : PutDone(r, ok)
  \/ \E r \in rs, ok \in oks : UpdateDone(r, ok)

Retry(rs) == \E r \in rs : BackoffDone(r)

\* the render loop and the broadcast interval, with publish outcomes in ps
Live(rs, ps) ==
  \/ \E r \in rs : DrawTick(r)
  \/ \E r \in rs, o \in ps : BroadcastTick(r, o)

\* one recording of the component, with every outcome of every request
\* what a timeslice delivers while recording: a small and a large chunk
SlicePayloads == {<<1>>, <<3>>}

Next ==
  \/ Acquire({1}, Surfaces \cup {"denied"}, PreviewOutcomes, BOOLEAN)
  \/ Control({1})
  \/ Record({1}, SlicePayloads, Payloads, BOOLEAN)
  \/ Retry({1})

Spec == Init /\ [][Next]_vars

\* one recording on a granted monitor capture whose uploads are accepted;
\* a timeslice may deliver an empty payload
NextChunks ==
  \/ Acquire({1}, {"monitor"}, {"ok"}, {TRUE})
  \/ Control({1})
  \/ Record({1}, Payloads, Payloads, {TRUE})
  \/ Retry({1})

SpecChunks == Init /\ [][NextChunks]_vars

\* one recording on a monitor capture with its render loop and its live
\* broadcast; any request but the screen capture may fail, uploads are
\* accepted
NextLive ==
  \/ Acquire({1}, {"monitor"}, {"ok"}, BOOLEAN)
  \/ Control({1})
  \/ Record({1}, {<<1>>}, {<<1>>}, {TRUE})
  \/ Live({1}, PublishOutcomes)

SpecLive == Init /\ [][NextLive]_vars

\* two recordings in a row on a monitor capture; every request is granted,
\* every upload is accepted and every broadcast is sent
RestartRuns == {1, 2}

NextRestart ==
  \/ Acquire(RestartRuns, {"monitor"}, {"ok"}, {TRUE})
  \/ \E th \in BOOLEAN : StopClick(th)
  \/ Unmount
  \/ \E r \in RestartRuns : RecorderStopped(r, <<1>>)
  \/ \E r \in RestartRuns : ChecksumDone(r)
  \/ \E r \in RestartRuns : PutDone(r, TRUE)
  \/ \E r \in RestartRuns : UpdateDone(r, TRUE)
  \/ \E r \in RestartRuns : BroadcastTick(r, "sent")

SpecRestart == Init /\ [][NextRestart]_vars

\* one LiveVideoStream component, its channel and the clock
NextView ==
  \/ \E sid \in SessionIds, act \in BOOLEAN : PropsChange(sid, act)
  \/ UnmountView
  \/ \E st \in SubscribeStatuses : SubscribeStatus(st)
  \/ \E f \in Frames : FrameReceived(f)
  \/ HealthPoll
  \/ Tick

\* a LiveVideoStream component just mounted at time 0, after the first run
\* of its effect; the VideoRecorder is idle
InitView ==
  /\ InitRecorder
  /\ ~autoStart
  /\ ~mandatory
  /\ now = 0
  /\ viewMounted = TRUE
  /\ sessionId = 1
  /\ isActive \in BOOLEAN
  /\ isStreaming = FALSE
  /\ lastFrameUpdate = Null
  /\ streamHealth = "good"
  /\ viewError = "null"
  /\ channelState = IF isActive THEN "joining" ELSE "none"
  /\ healthCheckIntervalRef = isActive
  /\ nextPoll = IF isActive THEN healthCheckMs ELSE 0
  /\ closureIsStreaming = FALSE
  /\ closureLastFrameUpdate = Null
  /\ received = 0
  /\ statusLog = <<>>
  /\ openChannels = (IF isActive THEN 1 ELSE 0)
  /\ activeTimers = (IF isActive THEN 1 ELSE 0)
  /\ NoMonitoring
  /\ NoWorker
  /\ NoProbe

SpecView == InitView /\ [][NextView]_vars

(* ------------------------------- properties --------------------------- *)
SourceTracks == ScreenTracks \cup WebcamTracks

NoLiveTrack(r) == \A t \in TrackIds : tracks[r][t] # "live"

\* the pipeline of run r is stopped
Stopped(r) ==
  /\ recState[r] = "inactive"
  /\ ~isRecording
  /\ ~raf[r]
  /\ ~bcast[r]
  /\ NoLiveTrack(r)

\* C1: whenever a screen or webcam track ends at its source while the
\* recorder of its run is recording, the pipeline is stopped when the
\* 'ended' listener has run: recorder inactive, isRecording false, render
\* loop and broadcast timer cancelled, every track released.
C1_SourceEndedStopsPipeline ==
  [][\A r \in Runs : \A t \in SourceTracks :
       (recState[r] = "recording" /\ (\E th \in BOOLEAN : TrackEnded(r, t, th)))
         => Stopped(r)']_vars

\* C2: a stop of the pipeline (Stop button, unmount) leaves no acquired
\* track live, and recorder.stop() is never called on a recorder that is
\* already inactive.
C2_StopReleasesAndIsIdempotent ==
  [][((\E th \in BOOLEAN : StopClick(th)) \/ Unmount)
       => ((\A r \in Runs : NoLiveTrack(r)') /\ ~badStop')]_vars

\* C3: a screen capture whose display surface is a window or a tab never
\* gets a recorder or a live broadcaster.
C3_InvalidSurfaceFailsBeforeRecording ==
  \A r \in Runs :
    surface[r] \in {"window", "browser"} => (recState[r] = "none" /\ live[r] = "none")

\* C4: when startRecording has failed, no track of that run is live and the
\* failure has been reported through onError.
C4_FailedStartReleasesTracks ==
  \A r \in Runs : sr[r] = "failed" => (NoLiveTrack(r) /\ Len(onErrorLog) > 0)

\* C5: when the recorder's error handler has run, the recorder is no longer
\* recording, every track of the run is released and onError has been
\* called.
C5_EncoderErrorStopsPipeline ==
  [][\A r \in Runs :
       (\E th \in BOOLEAN : RecorderError(r, th))
         => (recState'[r] # "recording" /\ NoLiveTrack(r)'
             /\ Len(onErrorLog') > Len(onErrorLog))]_vars

Results(r) == [i \in 1..Len(attempts[r]) |-> attempts[r][i].result]

\* C6: one artifact gets at most 3 uploadRecording calls; every call before
\* the last one failed; the loop ends without success only after exactly 3
\* calls; after two failures a successful third call ends the loop.
C6_AtMostThreeAttempts ==
  \A r \in Runs :
    /\ Len(attempts[r]) <= 3
    /\ \A i \in 1..(Len(attempts[r]) - 1) : attempts[r][i].result \notin {"ok", "pending"}
    /\ (os[r] = "done" /\ ~uploadSuccess[r]) => Len(attempts[r]) = 3
    /\ (Len(attempts[r]) = 3 /\ attempts[r][3].result = "ok")
          => (uploadSuccess[r] /\ os[r] = "done")
    /\ uploadSuccess[r] <=> (attempts[r] # <<>> /\ attempts[r][Len(attempts[r])].result = "ok")

\* the storage failed twice, then the third attempt succeeded
C6_Witness ==
  /\ Results(1) = <<"putFailed", "putFailed", "ok">>
  /\ uploadSuccess[1]
  /\ os[1] = "done"

\* C7: an artifact above the size ceiling gets exactly one uploadRecording
\* call and no storage put.
C7_TooLargeNotRetried ==
  \A r \in Runs :
    TooLarge(blob[r]) =>
      /\ Len(attempts[r]) <= 1
      /\ \A o \in storage : o.name[1] # r

\* the chunks in the order of the list, joined
RECURSIVE InOrder(_, _)
InOrder(list, i) ==
  IF i > Len(list) THEN <<>> ELSE list[i] \o InOrder(list, i + 1)

Artifact(r) == [blob |-> InOrder(chunks[r], 1),
                checksum |-> calculateChecksum(InOrder(chunks[r], 1))]

\* C8: when every upload attempt has failed, onRecordingStop was called
\* once with the artifact and the checksum of finalize time, and no step of
\* the upload loop changes the error state or calls onError.
C8_UploadFailureIsNotFatal ==
  /\ [](\A r \in Runs :
          (os[r] = "done" /\ ~uploadSuccess[r]) => delivered[r] = <<Artifact(r)>>)
  /\ [][attempts' # attempts => (error' = error /\ onErrorLog' = onErrorLog)]_vars

C8_Witness ==
  /\ os[1] = "done"
  /\ ~uploadSuccess[1]
  /\ Len(attempts[1]) = 3
  /\ delivered[1] = <<Artifact(1)>>
  /\ error = "null"

WritesOf(r) == SelectSeq(sessionWrites, LAMBDA w : w.run = r)

\* C9: the session record gets one {location, checksum} write for a
\* recording whose upload succeeded and none otherwise; the checksum is the
\* one of finalize time, the location is the path of the put of the
\* successful attempt, and the object at that path holds the artifact.
C9_OneSessionWritePerSuccess ==
  \A r \in Runs :
    /\ Len(WritesOf(r)) = (IF uploadSuccess[r] THEN 1 ELSE 0)
    /\ \A i \in 1..Len(WritesOf(r)) :
         /\ WritesOf(r)[i].recording_checksum = Artifact(r).checksum
         /\ WritesOf(r)[i].recording_url = <<r, Len(attempts[r])>>
         /\ [name |-> WritesOf(r)[i].recording_url, bytes |-> Artifact(r).blob] \in storage

\* the session update failed once after a good put, then an attempt succeeded
C9_Witness ==
  /\ Results(1) = <<"updateFailed", "ok">>
  /\ Len(sessionWrites) = 1
  /\ os[1] = "done"

\* C10: from the moment the checksum is computed, it equals the checksum of
\* the in-order concatenation of the chunks, and every upload attempt and
\* every stored object carries exactly those bytes and that checksum.
C10_ChecksumRoundTrip ==
  \A r \in Runs :
    os[r] \in {"put", "update", "backoff", "done"} =>
      /\ checksum[r] = Artifact(r).checksum
      /\ blob[r] = Artifact(r).blob
      /\ \A i \in 1..Len(attempts[r]) :
           /\ attempts[r][i].bytes = Artifact(r).blob
           /\ attempts[r][i].checksum = calculateChecksum(attempts[r][i].bytes)
      /\ \A o \in storage : o.name[1] = r => o.bytes = Artifact(r).blob

\* two different chunks, uploaded on a second attempt
C10_Witness ==
  /\ os[1] = "done"
  /\ Len(chunks[1]) = 2
  /\ chunks[1][1] # chunks[1][2]
  /\ Len(attempts[1]) = 2
  /\ uploadSuccess[1]

\* the payloads of size above 0 among the emitted ones, in emission order
NonEmpty(list) == SelectSeq(list, LAMBDA d : Len(d) > 0)

\* C11: the chunk list is the sequence of the non-empty payloads emitted so
\* far, in emission order (none lost, duplicated or reordered), and from
\* the moment onstop has built the artifact, the artifact is the
\* concatenation of every payload emitted, the one flushed by stop included.
C11_ChunksAreEmittedPayloads ==
  \A r \in Runs :
    /\ chunks[r] = NonEmpty(emitted[r])
    /\ os[r] \notin {"none", "queued"} =>
         /\ blob[r] = InOrder(emitted[r], 1)
         /\ blob[r] = InOrder(chunks[r], 1)

\* a payload, an empty payload, then a different payload flushed by stop
C11_Witness ==
  /\ os[1] = "done"
  /\ Len(emitted[1]) = 3
  /\ emitted[1][1] # <<>>
  /\ emitted[1][2] = <<>>
  /\ emitted[1][3] \notin {<<>>, emitted[1][1]}
  /\ blob[1] = emitted[1][1] \o emitted[1][3]

\* C12: a run in which a screen or webcam track ended at its source while
\* the recorder was recording puts no object into storage and writes no
\* {location, checksum} to the session record.
C12_SourceEndedProducesNoArtifact ==
  \A r \in Runs :
    sourceEnded[r] =>
      /\ \A o \in storage : o.name[1] # r
      /\ WritesOf(r) = <<>>

\* C13: while the observer has received exactly one frame, its health is
\* good 1 s after that frame, fair 4 s after it and poor 11 s after it.
C13_HealthAfterOneFrame ==
  (viewMounted /\ isActive /\ received = 1 /\ lastFrameUpdate # Null) =>
    /\ now - lastFrameUpdate = 1000 => streamHealth = "good"
    /\ now - lastFrameUpdate = 4000 => streamHealth = "fair"
    /\ now - lastFrameUpdate = 11000 => streamHealth = "poor"

\* C14: the handler of a video-frame message that carries a frame leaves
\* the stream health good, whatever it was before.
C14_FrameMovesHealthToGood ==
  [][(\E f \in Frames \ {""} : FrameReceived(f)) => streamHealth' = "good"]_vars

\* C15: a health poll that finds a streaming session whose last frame is
\* 10 s old or older sets the health to poor and calls
\* onStreamStatusChange(sessionId, false).
C15_SilentStreamReportedInactive ==
  [][(HealthPoll /\ isStreaming /\ lastFrameUpdate # Null
        /\ now - lastFrameUpdate >= 10000)
       => (streamHealth' = "poor"
           /\ statusLog' = Notify(statusLog, sessionId, FALSE))]_vars

\* the frames handed to channel.send, in publish order
Published == SelectSeq(broadcasts, LAMBDA b : b.result \in {"sent", "rejected"})

\* C16: the frameNumber of the frames published for the session is strictly
\* increasing in publish order, also from one recording to the next.
C16_FrameNumbersIncrease ==
  \A i, j \in 1..Len(Published) :
    i < j => Published[i].frameNumber < Published[j].frameNumber

\* the pipeline of run r has exited: by a user stop, a failed start, an
\* encoder error, a source that ended, or the unmount of the component
Exited(r) ==
  \/ recState[r] = "inactive"
  \/ sr[r] = "failed"
  \/ (recState[r] # "none" /\ error = "Recording failed. Please try again.")
  \/ sourceEnded[r]
  \/ (~mounted /\ sr[r] # "none")

\* C17: once the pipeline of a run has exited, its broadcast interval is
\* not active (whenever the channel subscription settles) and no firing
\* of it publishes or attempts a frame.
C17_NoBroadcastAfterExit ==
  /\ [](\A r \in Runs : Exited(r) => ~bcast[r])
  /\ [][\A r \in Runs : Exited(r) =>
           \A o \in PublishOutcomes : ~BroadcastTick(r, o)]_vars

\* C18: once the pipeline of a run has exited by a user stop, by an error
\* thrown in startRecording or by a source that ended, no drawComposite
\* tick of that run is scheduled.
C18_RenderLoopCancelledAfterExit ==
  \A r \in Runs :
    (recState[r] = "inactive" \/ sr[r] = "failed" \/ sourceEnded[r]) => ~raf[r]

\* C19: a firing of the broadcast interval whose send is rejected or whose
\* toDataURL throws leaves the interval active, makes that one attempt
\* only, and changes nothing of the recorder, the chunk list, the render
\* loop or the error state; a frame number is handed to channel.send once;
\* a failed initializeLiveStreaming changes nothing of startRecording, the
\* recorder or the error state.
C19_PublishFailureIsOnlyLogged ==
  /\ [][\A r \in Runs : \A o \in {"rejected", "threw"} :
          BroadcastTick(r, o) =>
            /\ bcast'[r]
            /\ Len(broadcasts') = Len(broadcasts) + 1
            /\ UNCHANGED <<recState, chunks, emitted, os, raf, animationFrameRef,
                           tracks, sr, isRecording, error, onErrorLog>>]_vars
  /\ [](\A i, j \in 1..Len(Published) :
          (i < j /\ Published[i].run = Published[j].run)
            => Published[i].frameNumber < Published[j].frameNumber)
  /\ [][\A r \in Runs :
          LiveSubscribed(r, FALSE) =>
            UNCHANGED <<recState, chunks, raf, sr, isRecording, error, onErrorLog,
                        started>>]_vars

\* a rejected send, then the next firing sends the next frame while the
\* recorder records and the render loop runs
C19_Witness ==
  /\ Len(broadcasts) = 2
  /\ broadcasts[1] = [run |-> 1, frameNumber |-> 1, result |-> "rejected"]
  /\ broadcasts[2] = [run |-> 1, frameNumber |-> 2, result |-> "sent"]
  /\ recState[1] = "recording"
  /\ raf[1]
  /\ bcast[1]


\* ---- the overlay on surfaces of several sizes ----
\* sizes a shared display, window or tab can report; a track that reports no
\* size has width 0 and height 0
Widths == {0, 640, 1280, 1920, 2560, 3840, 7680}
Heights == {0, 100, 200, 720, 1080, 1440, 2160}

InitGeometry ==
  /\ InitComponent
  /\ ~autoStart
  /\ ~mandatory
  /\ screenSettings \in {s \in [width : Widths, height : Heights] :
                          (s.width = 0) <=> (s.height = 0)}
  /\ vp9Supported = TRUE
  /\ now = 0
  /\ NoView
  /\ NoMonitoring
  /\ NoWorker
  /\ NoProbe

NextGeometry ==
  \/ CheckPermissionsDone(TRUE)
  \/ StartClick(1)
  \/ \E s \in {"monitor", "window"}, a \in BOOLEAN : GetDisplayMediaDone(1, s, a)
  \/ GetUserMediaDone(1, TRUE)
  \/ PreviewDone(1, "ok")
  \/ VideosReady(1, TRUE)
  \/ DrawTick(1)

SpecGeometry == InitGeometry /\ [][NextGeometry]_vars

\* C20: once drawComposite has drawn, the overlay rectangle lies inside
\* [0, width] x [0, height] of the canvas and its width is PIP_WIDTH_RATIO
\* of the canvas width, for every size the setup step gives the canvas.
C20_OverlayInsideSurface ==
  painted[1] =>
    /\ pip.x >= 0
    /\ pip.y >= 0
    /\ pip.x + pip.w <= canvasWidth * Unit
    /\ pip.y + pip.h <= canvasHeight * Unit
    /\ pip.w = canvasWidth * PIP_WIDTH_RATIO

\* the size of the shared surface, with the defaults of lines 464-465
originalWidth == IF screenSettings.width # 0 THEN screenSettings.width ELSE 1920
originalHeight == IF screenSettings.height # 0 THEN screenSettings.height ELSE 1080

\* the setup step has sized the canvas of run r
Sized(r) == sr[r] \in {"loadVideos", "returned"}

\* C21: the canvas is never wider than MAX_CANVAS_WIDTH; a wider source gives
\* (MAX_CANVAS_WIDTH, round(height * MAX_CANVAS_WIDTH / width)), any other
\* source its own size; only the setup step sets the size, no render tick
\* changes it.
C21_SurfaceWidthCapped ==
  /\ [](Sized(1) =>
          /\ canvasWidth <= MAX_CANVAS_WIDTH
          /\ IF originalWidth > MAX_CANVAS_WIDTH
             THEN /\ canvasWidth = MAX_CANVAS_WIDTH
                  /\ 2 * (canvasHeight * originalWidth - originalHeight * MAX_CANVAS_WIDTH)
                       <= originalWidth
                  /\ 2 * (originalHeight * MAX_CANVAS_WIDTH - canvasHeight * originalWidth)
                       < originalWidth
             ELSE /\ canvasWidth = originalWidth
                  /\ canvasHeight = originalHeight)
  /\ [][(canvasWidth' # canvasWidth \/ canvasHeight' # canvasHeight)
          => (sr[1] = "preview" /\ sr'[1] = "loadVideos")]_vars
  /\ [][DrawTick(1) => UNCHANGED <<canvasWidth, canvasHeight>>]_vars

\* a 2560x1440 source was scaled to 1280x720 and drawn
C21_Witness ==
  /\ painted[1]
  /\ screenSettings = [width |-> 2560, height |-> 1440]
  /\ canvasWidth = 1280
  /\ canvasHeight = 720

\* C22: a 1920x1080 capture gives a 1280x720 canvas; the overlay is 256 wide
\* and 192 high with its top-left corner at (1004, 508), so its right and
\* bottom edges are 20 px from the right and bottom edges of the canvas.
C22_FullHDExample ==
  (painted[1] /\ screenSettings = [width |-> 1920, height |-> 1080]) =>
    /\ canvasWidth = 1280
    /\ canvasHeight = 720
    /\ pip = [x |-> 1004 * Unit, y |-> 508 * Unit, w |-> 256 * Unit, h |-> 192 * Unit]
    /\ canvasWidth * Unit - (pip.x + pip.w) = 20 * Unit
    /\ canvasHeight * Unit - (pip.y + pip.h) = 20 * Unit

C22_Witness ==
  /\ painted[1]
  /\ screenSettings = [width |-> 1920, height |-> 1080]
  /\ pip.w = 256 * Unit

\* C23: the composite stream gets the screen stream's audio tracks whenever
\* the screen stream has one (live or ended), the webcam's audio tracks only
\* when it has none, and never audio tracks of both.
C23_ScreenAudioPreferred ==
  \A r \in Runs :
    compAudio[r] # "none" =>
      /\ tracks[r]["sa"] # "none" => CompositeTracks(r) = {"cv", "sa"}
      /\ tracks[r]["sa"] = "none" => CompositeTracks(r) = {"cv", "wa"}
      /\ ~({"sa", "wa"} \subseteq CompositeTracks(r))

\* a capture without system audio records the microphone
C23_Witness ==
  /\ recState[1] = "recording"
  /\ tracks[1]["sa"] = "none"
  /\ tracks[1]["wa"] = "live"
  /\ compAudio[1] = "webcam"

\* ---- the controls of a mandatory recorder ----
\* "Check Permissions Again" on the error card: checkPermissions runs again
CheckPermissionsClick ==
  /\ mounted
  /\ error # "null"
  /\ ~permPending
  /\ permPending' = TRUE
  /\ UNCHANGED <<pipeVars, upVars, autoStart, mandatory, mounted, isRecording, error,
                 hasPermissions, onErrorLog, canvasRef>>
  /\ UNCHANGED <<liveVars, outside>>

NextMandatory ==
  \/ Acquire({1}, {"monitor"}, PreviewOutcomes, BOOLEAN)
  \/ Control({1})
  \/ Record({1}, {<<1>>}, {<<1>>}, {TRUE})
  \/ CheckPermissionsClick

SpecMandatory == Init /\ [][NextMandatory]_vars

\* what the candidate can do in the component: the Start button, the Stop
\* button and the button of the error card
UserAction ==
  \/ \E th \in BOOLEAN : StopClick(th)
  \/ \E r \in Runs : StartClick(r)
  \/ CheckPermissionsClick

\* C24: with a mandatory recorder the Stop button never acts; while a
\* recording is active no user action changes the recorder, the tracks, the
\* draw loop or the broadcast; a step that takes the recorder out of
\* "recording" is an unmount, an encoder error or a source ending.
C24_MandatoryCannotBeStopped ==
  /\ [][\A th \in BOOLEAN : mandatory => ~StopClick(th)]_vars
  /\ [][\A r \in Runs :
          (mandatory /\ recState[r] = "recording" /\ UserAction)
            => UNCHANGED <<recState, tracks, raf, bcast, recorderRef>>]_vars
  /\ [][\A r \in Runs :
          (mandatory /\ recState[r] = "recording" /\ recState'[r] # "recording")
            => \/ Unmount
               \/ \E th \in BOOLEAN : RecorderError(r, th)
               \/ \E t \in TrackIds, th \in BOOLEAN : TrackEnded(r, t, th)]_vars

\* a mandatory recording is running and the disabled Stop button is shown
C24_Witness ==
  /\ mandatory
  /\ mounted
  /\ error = "null"
  /\ isRecording
  /\ recState[1] = "recording"
  /\ chunks[1] # <<>>

(* ---------------------------- LiveMonitoring --------------------------- *)
notClock == <<viewVars, geoVars, codecVars, waits, swVars, probeVars, pipeVars, upVars, uiVars,
             liveVars>>

notMonitoring == <<now, notClock>>

MaxInflight == 2
MaxEvents == 1
MaxMonitorSeconds == 15

MonTickMs == 5000

\* setInterval(loadActiveSessions, 10000)
reloadMs == 10000

\* 24 hours, in ms
DayMs == 24 * 60 * 60 * 1000

MonIds == {1, 2}

\* the clock has reached the end of the modelled time
AtHorizon == now + MonTickMs > MaxMonitorSeconds * 1000

\* .order('started_at', { ascending: false }) over a set of ids
RECURSIVE OrderDesc(_, _)
OrderDesc(db, ids) ==
  IF ids = {} THEN <<>>
  ELSE LET first == CHOOSE i \in ids :
                      \A j \in ids : \/ db[i].started_at > db[j].started_at
                                     \/ (db[i].started_at = db[j].started_at /\ i <= j)
       IN <<[id |-> first, status |-> db[first].status,
             started_at |-> db[first].started_at]>>
          \o OrderDesc(db, ids \ {first})

\* the query without .eq('status', 'in_progress')
selectAllRows(db) == OrderDesc(db, DOMAIN db)

\* lines 71-83: the rows with status in_progress, newest first
selectInProgress(db) ==
  OrderDesc(db, {i \in DOMAIN db : db[i].status = "in_progress"})

\* lines 89-94: hoursElapsed < 24 at the time t of the filtering
filteredData(data, t) == SelectSeq(data, LAMBDA s : t - s.started_at < DayMs)

ListedIds == {activeSessions[k].id : k \in 1..Len(activeSessions)}

\* the ids whose row is completed
Completed == {id \in DOMAIN candidate_sessions : candidate_sessions[id].status = "completed"}

\* the body of loadActiveSessions up to the await; the request remembers
\* which rows were completed when it was made
loadActiveSessions(src) ==
  /\ Len(requests) < MaxInflight
  /\ requests' = Append(requests, [src |-> src, since |-> Completed, kind |-> "sent",
                                   data |-> <<>>, overtaken |-> FALSE])

\* the interval fires
PollFires ==
  /\ monMounted
  /\ now = nextReload \/ AtHorizon
  /\ loadActiveSessions("poll")
  /\ nextReload' = IF now = nextReload THEN now + reloadMs ELSE nextReload
  /\ UNCHANGED <<monMounted, candidate_sessions, activeSessions, loading, monChannel,
                 events, polledSince, removed>>
  /\ UNCHANGED notMonitoring

\* channel.subscribe() settles
MonSubscribed(ok) ==
  /\ monChannel = "joining"
  /\ monChannel' = IF ok THEN "joined" ELSE "errored"
  /\ UNCHANGED <<monMounted, candidate_sessions, activeSessions, loading, requests,
                 events, nextReload, polledSince, removed>>
  /\ UNCHANGED notMonitoring

\* a candidate submits: the row's status becomes completed; a joined channel
\* is sent the change
Complete(id) ==
  /\ id \in DOMAIN candidate_sessions
  /\ candidate_sessions[id].status = "in_progress"
  /\ candidate_sessions' = [candidate_sessions EXCEPT ![id].status = "completed"]
  /\ events' = IF monChannel = "joined" /\ events < MaxEvents THEN events + 1 ELSE events
  /\ UNCHANGED <<monMounted, activeSessions, loading, requests, monChannel, nextReload,
                 polledSince, removed>>
  /\ UNCHANGED notMonitoring

\* the postgres_changes callback
EventArrives ==
  /\ events > 0
  /\ monMounted
  /\ events' = events - 1
  /\ loadActiveSessions("event")
  /\ UNCHANGED <<monMounted, candidate_sessions, activeSessions, loading, monChannel,
                 nextReload, polledSince, removed>>
  /\ UNCHANGED notMonitoring

\* the database answers request i: the rows as they are now, or an error
ServerReply(i, ok) ==
  /\ i \in 1..Len(requests)
  /\ requests[i].kind = "sent"
  /\ requests' = [requests EXCEPT
                    ![i].kind = IF ok THEN "data" ELSE "error",
                    ![i].data = IF ok THEN selectInProgress(candidate_sessions) ELSE <<>>]
  /\ UNCHANGED <<monMounted, candidate_sessions, activeSessions, loading, monChannel,
                 events, nextReload, polledSince, removed>>
  /\ UNCHANGED notMonitoring

RemoveAt(list, i) == SubSeq(list, 1, i - 1) \o SubSeq(list, i + 1, Len(list))

\* the calls issued before call i that are still awaiting, marked as
\* overtaken when call i sets the list
MarkOlder(list, i) ==
  [j \in 1..Len(list) |->
     IF j < i /\ list[i].kind = "data" THEN [list[j] EXCEPT !.overtaken = TRUE]
     ELSE list[j]]

\* a failed load empties the list
afterLoadClearsOnError(list, req, t) ==
  IF req.kind = "data" THEN filteredData(req.data, t) ELSE <<>>

\* lines 85-98: setActiveSessions(filteredData), skipped when the query threw
afterLoad(list, req, t) ==
  IF req.kind = "data" THEN filteredData(req.data, t) ELSE list

\* the await of request i resumes: lines 85-101
Deliver(i) ==
  /\ i \in 1..Len(requests)
  /\ requests[i].kind # "sent"
  /\ requests' = RemoveAt(MarkOlder(requests, i), i)
  /\ monMounted
  /\ activeSessions' = afterLoad(activeSessions, requests[i], now)
  /\ loading' = FALSE
  /\ polledSince' = [id \in MonIds |->
       \/ polledSince[id]
       \/ /\ requests[i].src = "poll"
          /\ id \in requests[i].since]
  /\ removed' = [id \in MonIds |->
       \/ removed[id]
       \/ /\ id \in Completed
          /\ id \in ListedIds
          /\ requests[i].kind = "data"
          /\ \A k \in 1..Len(requests[i].data) : requests[i].data[k].id # id]
  /\ UNCHANGED <<monMounted, candidate_sessions, monChannel, events, nextReload>>
  /\ UNCHANGED notMonitoring

\* the effect's cleanup; the component's state is gone and the loads still
\* in flight set the state of no component
UnmountMonitoring ==
  /\ monMounted
  /\ monMounted' = FALSE
  /\ monChannel' = "closed"
  /\ events' = 0
  /\ activeSessions' = <<>>
  /\ requests' = <<>>
  /\ UNCHANGED <<candidate_sessions, loading, nextReload, polledSince, removed>>
  /\ UNCHANGED notMonitoring

\* time passes while the list is shown, unless the interval is due
TickMonitoring ==
  /\ ~AtHorizon
  /\ monMounted
  /\ now < nextReload
  /\ now' = now + MonTickMs
  /\ UNCHANGED <<monVars, notClock>>

\* session 1 started a minute ago; session 2 reaches the age of 24 hours
\* 10 s from now, and is in progress or abandoned
InitMonitoring ==
  /\ InitRecorder
  /\ ~autoStart
  /\ ~mandatory
  /\ now = 0
  /\ NoView
  /\ NoWorker
  /\ NoProbe
  /\ monMounted = TRUE
  /\ candidate_sessions \in
       {[id \in MonIds |-> IF id = 1 THEN [status |-> "in_progress", started_at |-> 0 - 60000]
                           ELSE [status |-> st, started_at |-> sa]] :
          st \in {"in_progress", "abandoned"}, sa \in {10000 - DayMs}}
  /\ activeSessions = <<>>
  /\ loading = TRUE
  /\ requests = <<[src |-> "mount", since |-> {}, kind |-> "sent", data |-> <<>>,
                    overtaken |-> FALSE]>>
  /\ monChannel = "joining"
  /\ events = 0
  /\ nextReload = reloadMs
  /\ polledSince = [id \in MonIds |-> FALSE]
  /\ removed = [id \in MonIds |-> FALSE]

NextMonitoring ==
  \/ PollFires
  \/ \E ok \in BOOLEAN : MonSubscribed(ok)
  \/ Complete(1)
  \/ EventArrives
  \/ \E i \in 1..MaxInflight, ok \in BOOLEAN : ServerReply(i, ok)
  \/ \E i \in 1..MaxInflight : Deliver(i)
  \/ UnmountMonitoring
  \/ TickMonitoring

SpecMonitoring == InitMonitoring /\ [][NextMonitoring]_vars

\* the interval keeps firing, the head of the requests in flight is answered
\* and processed, and the database answers some load successfully again
\* and again
SpecMonitoringFair ==
  /\ SpecMonitoring
  /\ WF_vars(TickMonitoring)
  /\ WF_vars(PollFires)
  /\ WF_vars(\E ok \in BOOLEAN : ServerReply(1, ok))
  /\ SF_vars(\E i \in 1..MaxInflight : ServerReply(i, TRUE))
  /\ WF_vars(Deliver(1))

C26_FirstFrameStartsGood ==
  /\ []((viewMounted /\ lastFrameUpdate = Null) => ~isStreaming)
  /\ [][\A st \in SubscribeStatuses :
          SubscribeStatus(st) => (isStreaming' => isStreaming)]_vars
  /\ [][\A f \in Frames \ {""} :
          (lastFrameUpdate = Null /\ FrameReceived(f))
            => (isStreaming' /\ streamHealth' = "good")]_vars

\* ---- the codec of the recorder ----
\* a browser that records VP9, or one that does not
InitCodec ==
  /\ InitComponent
  /\ screenSettings = [width |-> 1920, height |-> 1080]
  /\ vp9Supported \in BOOLEAN
  /\ now = 0
  /\ NoView
  /\ NoMonitoring
  /\ NoWorker
  /\ NoProbe

SpecCodec == InitCodec /\ [][NextMandatory]_vars

\* C27: the mimeType is chosen when the recorder is created, VP9 when the
\* runtime supports it and VP8 otherwise, and no step changes the mimeType
\* of a recorder that exists.
C27_CodecChosenOnce ==
  /\ [](\A r \in Runs :
          recState[r] # "none" =>
            mimeType[r] = IF vp9Supported THEN "video/webm;codecs=vp9,opus"
                          ELSE "video/webm;codecs=vp8,opus")
  /\ [][\A r \in Runs : recState[r] # "none" => mimeType'[r] = mimeType[r]]_vars
  /\ [][\A r \in Runs : mimeType'[r] # mimeType[r] => recState[r] = "none"]_vars

\* a browser without VP9 is recording VP8 and has delivered a chunk
C27_Witness ==
  /\ ~vp9Supported
  /\ recState[1] = "recording"
  /\ chunks[1] # <<>>
  /\ mimeType[1] = "video/webm;codecs=vp8,opus"

\* ---- one recording whose uploads succeed or fail ----
NextRetry ==
  \/ Acquire({1}, {"monitor"}, {"ok"}, {TRUE})
  \/ \E th \in BOOLEAN : StopClick(th)
  \/ Record({1}, SlicePayloads, Payloads, BOOLEAN)
  \/ Retry({1})

SpecRetry == Init /\ [][NextRetry]_vars

\* the attempts of run r that failed
Failures(r) == SelectSeq(attempts[r], LAMBDA a : a.result \notin {"ok", "pending"})

\* C28: the waits of the retry loop are 2000 ms after the first failure and
\* 4000 ms after the second, each longer than the one before; there is no
\* wait after the third failure; every attempt sends the whole Blob.
C28_BackoffIncreases ==
  \A r \in Runs :
    /\ Len(waits[r]) = (IF Len(Failures(r)) < maxRetries THEN Len(Failures(r))
                        ELSE maxRetries - 1)
    /\ \A i \in 1..Len(waits[r]) : waits[r][i] = 2000 * i
    /\ \A i, j \in 1..Len(waits[r]) : i < j => waits[r][i] < waits[r][j]
    /\ os[r] = "backoff" <=> (Len(Failures(r)) = Len(attempts[r])
                              /\ Len(waits[r]) = Len(attempts[r]) /\ attempts[r] # <<>>
                              /\ os[r] # "done")
    /\ \A i \in 1..Len(attempts[r]) : attempts[r][i].bytes = blob[r]

\* three attempts failed: two waits, none after the last attempt
C28_Witness ==
  /\ os[1] = "done"
  /\ ~uploadSuccess[1]
  /\ Len(attempts[1]) = 3
  /\ waits[1] = <<2000, 4000>>

\* ---- one recording whose render loop may find either element without a frame ----
NextDraw ==
  \/ Acquire({1}, {"monitor"}, {"ok"}, {TRUE})
  \/ Control({1})
  \/ \E screenReady, webcamReady \in BOOLEAN, fs, fw \in VideoFrames :
        drawComposite(1, screenReady, webcamReady, fs, fw)

SpecDraw == Init /\ [][NextDraw]_vars

\* C29: a callback that finds an element without a frame leaves that
\* source's region of the canvas as it was (the primary region for the
\* screen, the overlay region for the webcam) and requests the next frame.
C29_FrameHeld ==
  [][\A screenReady, webcamReady \in BOOLEAN, fs, fw \in VideoFrames :
       drawComposite(1, screenReady, webcamReady, fs, fw) =>
           /\ ~screenReady => canvasPixels'.primary = canvasPixels.primary
           /\ ~webcamReady => canvasPixels'.overlay = canvasPixels.overlay
           /\ raf'[1]
           /\ animationFrameRef' = 1]_vars

(* ============================ the service worker ======================= *)
\* public/sw.js
CACHE_NAME == "exam-space-v3"

\* the caches an earlier version of the worker may have left, oldest first
OldCacheNames == <<"exam-space-v1", "exam-space-v2">>
CacheOrder == OldCacheNames \o <<CACHE_NAME>>
AllCacheNames == {CacheOrder[i] : i \in 1..Len(CacheOrder)}

\* the paths of the page's requests
urlsToCache == {"/index.html", "/logo.png"}
Paths == {"/index.html", "/logo.png", "/assets/app.js", "/rest/data"}

\* the hosts of the page's requests
Hosts == {"exam.example", "abc.supabase.co", "cdn.example"}
location == "exam.example"

Requests ==
  [method : {"GET", "POST"}, host : Hosts, upgrade : {"none", "websocket"},
   mode : {"navigate", "cors"}, path : Paths]

NoCache == [present |-> FALSE, paths |-> {}]

\* everything outside the service worker
notWorker == <<now, monVars, viewVars, geoVars, codecVars, waits, probeVars, pipeVars,
               upVars, uiVars, liveVars>>

\* /supabase\.co/.test(url.host)
isSupabase(host) == host \in {"abc.supabase.co"}

\* every cache is kept
shouldDeleteNone(cacheName) == FALSE

\* lines 52-55: if (cacheName !== CACHE_NAME) caches.delete(cacheName)
shouldDelete(cacheName) == cacheName # CACHE_NAME

\* lines 79-81: the requests the handler returns from before respondWith
passThrough(req) ==
  \/ req.method # "GET"
  \/ isSupabase(req.host)
  \/ req.upgrade = "websocket"

\* lines 63-72, for the paths of Paths: in development '.js' files are excluded
shouldExcludeFromCache(path) == isDevelopment /\ path \in {"/assets/app.js"}

\* line 101
isStaticAsset(path) == path \in {"/logo.png", "/assets/app.js"}

\* caches.match(path): the first cache, in creation order, that stores the
\* path; "none" when no cache does
RECURSIVE matchFrom(_, _, _)
matchFrom(cs, path, i) ==
  IF i > Len(CacheOrder) THEN "none"
  ELSE IF cs[CacheOrder[i]].present /\ path \in cs[CacheOrder[i]].paths THEN CacheOrder[i]
  ELSE matchFrom(cs, path, i + 1)

match(cs, path) == matchFrom(cs, path, 1)

\* cache.put / cache.addAll into the cache caches.open(name) returns
put(cs, name, paths) ==
  [cs EXCEPT ![name] = [present |-> TRUE, paths |-> cs[name].paths \cup paths]]

\* the install handler: caches.open(CACHE_NAME), then addAll(urlsToCache);
\* a failure of addAll is caught and logged
Install(ok) ==
  /\ swState = "parsed"
  /\ swState' = "installed"
  /\ caches' = put(caches, CACHE_NAME, IF ok THEN urlsToCache ELSE {})
  /\ UNCHANGED <<isDevelopment, cacheNames, lastFetch, notWorker>>

\* the activate handler up to caches.keys()
Activate ==
  /\ swState = "installed"
  /\ swState' = "activating"
  /\ cacheNames' = {n \in AllCacheNames : caches[n].present}
  /\ UNCHANGED <<isDevelopment, caches, lastFetch, notWorker>>

\* one element of cacheNames.map(...)
VisitCache(n) ==
  /\ swState = "activating"
  /\ n \in cacheNames
  /\ cacheNames' = cacheNames \ {n}
  /\ caches' = IF shouldDelete(n) THEN [caches EXCEPT ![n] = NoCache] ELSE caches
  /\ UNCHANGED <<isDevelopment, swState, lastFetch, notWorker>>

\* Promise.all has settled: event.waitUntil lets the worker become active
Activated ==
  /\ swState = "activating"
  /\ cacheNames = {}
  /\ swState' = "activated"
  /\ UNCHANGED <<isDevelopment, caches, cacheNames, lastFetch, notWorker>>

\* the fetch handler on request req, with the network answering (200) or not
Fetch(req, online) ==
  /\ swState = "activated"
  /\ IF passThrough(req)
     THEN /\ lastFetch' = [req |-> req, responded |-> FALSE, from |-> "none"]
          /\ UNCHANGED caches
     ELSE IF req.mode = "navigate"
     THEN /\ lastFetch' = [req |-> req, responded |-> TRUE,
                           from |-> IF online THEN "network"
                                    ELSE match(caches, "/index.html")]
          /\ UNCHANGED caches
     ELSE IF req.host # location \/ shouldExcludeFromCache(req.path)
     THEN /\ lastFetch' = [req |-> req, responded |-> FALSE, from |-> "none"]
          /\ UNCHANGED caches
     ELSE IF isStaticAsset(req.path)
     THEN IF match(caches, req.path) # "none"
          THEN /\ lastFetch' = [req |-> req, responded |-> TRUE,
                                from |-> match(caches, req.path)]
               /\ UNCHANGED caches
          ELSE /\ lastFetch' = [req |-> req, responded |-> TRUE,
                                from |-> IF online THEN "network" ELSE "none"]
               /\ caches' = IF online THEN put(caches, CACHE_NAME, {req.path})
                            ELSE caches
     ELSE /\ lastFetch' = [req |-> req, responded |-> TRUE,
                           from |-> IF online THEN "network"
                                    ELSE match(caches, req.path)]
          /\ UNCHANGED caches
  /\ UNCHANGED <<isDevelopment, swState, cacheNames, notWorker>>

\* a new version of sw.js has been downloaded; earlier versions may have
\* left caches under older names
InitWorker ==
  /\ InitRecorder
  /\ now = 0
  /\ NoView
  /\ NoMonitoring
  /\ NoProbe
  /\ isDevelopment \in BOOLEAN
  /\ swState = "parsed"
  /\ caches \in [AllCacheNames ->
                   {NoCache} \cup [present : {TRUE},
                                   paths : SUBSET {"/index.html", "/assets/app.js"}]]
  /\ ~caches[CACHE_NAME].present
  /\ cacheNames = {}
  /\ lastFetch = <<>>

NextWorker ==
  \/ \E ok \in BOOLEAN : Install(ok)
  \/ Activate
  \/ \E n \in AllCacheNames : VisitCache(n)
  \/ Activated
  \/ \E req \in Requests, online \in BOOLEAN : Fetch(req, online)

SpecWorker == InitWorker /\ [][NextWorker]_vars

\* C30: once the worker is active, no cache under another name than
\* CACHE_NAME exists, no response comes from such a cache, and the handler
\* has not responded to a request that is not GET, goes to a Supabase host
\* or asks for a websocket upgrade.
C30_OldCachesGone ==
  swState = "activated" =>
      /\ \A n \in AllCacheNames : n # CACHE_NAME => ~caches[n].present
      /\ lastFetch # <<>> =>
           /\ lastFetch.from \in {"none", "network", CACHE_NAME}
           /\ (\/ lastFetch.req.method # "GET"
               \/ lastFetch.req.host = "abc.supabase.co"
               \/ lastFetch.req.upgrade = "websocket") => ~lastFetch.responded

\* earlier versions had cached /assets/app.js; the active worker answered a
\* request for it without the network, and not from an old cache
C30_Witness ==
  /\ swState = "activated"
  /\ lastFetch # <<>>
  /\ lastFetch.req.path = "/assets/app.js"
  /\ lastFetch.responded
  /\ lastFetch.from = CACHE_NAME

\* C31: onstop runs once for a stopped recorder: its blob and its checksum
\* are created once and stay as they are, and onRecordingStop is called
\* once, with them, when the retry loop has ended (an attempt succeeded or
\* the third one failed), never before.
C31_FinalizeOnce ==
  /\ [](\A r \in Runs :
          /\ Len(delivered[r]) <= 1
          /\ os[r] = "done" =>
               delivered[r] = <<[blob |-> blob[r], checksum |-> checksum[r]]>>
          /\ delivered[r] # <<>> =>
               /\ os[r] = "done"
               /\ uploadSuccess[r] \/ Len(Failures(r)) = maxRetries
               /\ \A i \in 1..Len(attempts[r]) : attempts[r][i].result # "pending")
  /\ [][\A r \in Runs :
          /\ os[r] \notin {"none", "queued"} => blob'[r] = blob[r]
          /\ os[r] \notin {"none", "queued", "hashing"} => checksum'[r] = checksum[r]
          /\ os[r] = "done" => os'[r] = "done"
          /\ os[r] \notin {"none", "queued"} => os'[r] # "queued"]_vars

\* a recording whose first upload failed and whose second was accepted has
\* been handed to the owner
C31_Witness ==
  /\ os[1] = "done"
  /\ Len(delivered[1]) = 1
  /\ uploadSuccess[1]
  /\ Len(attempts[1]) = 2

\* C32: the bucket holds at most one object per finished recording, also
\* when a put was accepted and the session update after it failed.
C32_OneObjectPerRecording ==
  \A r \in Runs : Cardinality({o \in storage : o.name[1] = r}) <= 1

\* C33: once the latest startRecording has returned or failed, isRecording
\* is true only while its recorder is recording; after a failed start it is
\* false.
C33_IsRecordingAgrees ==
  \A r \in Runs :
    (r = nRuns /\ sr[r] \in {"failed", "returned"} /\ isRecording)
        => recState[r] = "recording"

\* ---- three starts in a row on a monitor capture; every request is granted ----
NextOverlap ==
  \/ Acquire(Runs, {"monitor"}, {"ok"}, {TRUE})
  \/ \E th \in BOOLEAN : StopClick(th)

SpecOverlap == Init /\ [][NextOverlap]_vars

\* startRecording of run r has been entered and has not returned or failed
Acquiring(r) == sr[r] \in {"getDisplay", "getUser", "preview", "loadVideos"}

\* C34: at most one run of startRecording is acquiring or recording at any
\* time, and every live track of an acquired screen or webcam stream is
\* still held by the run acquiring it or by the component's stream refs.
C34_OnePipeline ==
  /\ Cardinality({r \in Runs : Acquiring(r) \/ recState[r] = "recording"}) <= 1
  /\ \A r \in Runs :
       /\ (\E t \in ScreenTracks : tracks[r][t] = "live")
             => (Acquiring(r) \/ screenStreamRef = r)
       /\ (\E t \in WebcamTracks : tracks[r][t] = "live")
             => (Acquiring(r) \/ webcamStreamRef = r)

\* the onStreamStatusChange calls made for session sid, in order
StatusOf(sid) == SelectSeq(statusLog, LAMBDA e : e.sessionId = sid)

\* C35: the notifications for one session alternate, beginning with true:
\* true is notified only when the stream was not reported as streaming,
\* false only after a true.
C35_NotificationsAlternate ==
  \A sid \in SessionIds :
    \A i \in 1..Len(StatusOf(sid)) : StatusOf(sid)[i].active = (i % 2 = 1)

\* C36: the last notification for a session that is no longer observed
\* (inactive, replaced by another session id, or unmounted) is not true.
C36_CleanupNotifiesInactive ==
  \A sid \in SessionIds :
    (StatusOf(sid) # <<>> /\ (~viewMounted \/ ~isActive \/ sessionId # sid))
        => ~StatusOf(sid)[Len(StatusOf(sid))].active

\* C38: the component never has more than one channel open or more than
\* one health interval set; while it is inactive or unmounted it has none,
\* and the health check only runs for a mounted, active component.
C38_OneChannelOneTimer ==
  /\ [](/\ openChannels <= 1
        /\ activeTimers <= 1
        /\ (openChannels = 1) <=> (channelState # "none")
        /\ (activeTimers = 1) <=> healthCheckIntervalRef
        /\ (~viewMounted \/ ~isActive) => (openChannels = 0 /\ activeTimers = 0))
  /\ [][HealthPoll => (viewMounted /\ isActive /\ healthCheckIntervalRef)]_vars

\* the observer, which started on session 1 and has notified its owner,
\* now observes session 2 with one channel and one interval
C38_Witness ==
  /\ viewMounted
  /\ sessionId = 2
  /\ isActive
  /\ statusLog # <<>>
  /\ openChannels = 1
  /\ activeTimers = 1

(* ============================ LiveStreamProbe ========================== *)
MaxProbeSeconds == 16

\* setInterval(..., 3000)
probePollMs == 3000

\* Date.now() - last > 10000
probeSilenceMs == 10000

\* everything outside the probe and the clock
notProbe == <<monVars, viewVars, swVars, geoVars, codecVars, waits, pipeVars, upVars,
              uiVars, liveVars>>

\* the timer waits for twice the silence
staleAfterTwice(t, last) == t - last > 2 * probeSilenceMs

\* line 36: Date.now() - last > 10000
stale(t, last) == t - last > probeSilenceMs

\* setIsActive(active) with onActiveChange(sessionId, active); isActive is a
\* dependency of the effect, so its cleanup removes the channel and clears
\* the timer, and its body subscribes a new channel and sets a new timer
probeSetActive(active) ==
  /\ probeActive' = active
  /\ probeReport' = IF active THEN "active" ELSE "inactive"
  /\ probeChannel' = "joining"
  /\ probeNextPoll' = now + probePollMs

\* the subscription of the probe's channel completes
ProbeSubscribed ==
  /\ probeChannel = "joining"
  /\ probeChannel' = "joined"
  /\ UNCHANGED <<now, probeActive, lastFrameRef, probeNextPoll, probeReport, notProbe>>

\* the 'video-frame' handler of the probe; a frame broadcast while the
\* channel is joining does not reach it
ProbeFrame ==
  /\ probeChannel = "joined"
  /\ lastFrameRef # now
  /\ lastFrameRef' = now
  /\ IF ~probeActive THEN probeSetActive(TRUE)
     ELSE UNCHANGED <<probeActive, probeReport, probeChannel, probeNextPoll>>
  /\ UNCHANGED <<now, notProbe>>

\* the health timer of the probe fires
ProbePoll ==
  /\ probeChannel # "none"
  /\ now = probeNextPoll
  /\ IF lastFrameRef # Null /\ stale(now, lastFrameRef) /\ probeActive
     THEN probeSetActive(FALSE)
     ELSE /\ probeNextPoll' = now + probePollMs
          /\ UNCHANGED <<probeActive, probeReport, probeChannel>>
  /\ UNCHANGED <<now, lastFrameRef, notProbe>>

\* time passes, unless the probe's timer is due
ProbeTick ==
  /\ now + TickMs <= MaxProbeSeconds * 1000
  /\ now < probeNextPoll
  /\ now' = now + TickMs
  /\ UNCHANGED <<probeVars, notProbe>>

\* a LiveStreamProbe just mounted at time 0, after the first run of its effect
InitProbe ==
  /\ InitRecorder
  /\ ~autoStart
  /\ ~mandatory
  /\ now = 0
  /\ NoView
  /\ NoMonitoring
  /\ NoWorker
  /\ probeActive = FALSE
  /\ lastFrameRef = Null
  /\ probeChannel = "joining"
  /\ probeNextPoll = probePollMs
  /\ probeReport = "none"

NextProbe ==
  \/ ProbeSubscribed
  \/ ProbeFrame
  \/ ProbePoll
  \/ ProbeTick

SpecProbe == InitProbe /\ [][NextProbe]_vars

C39_LatestQueryWins ==
  [][\A i \in 1..MaxInflight :
       (Deliver(i) /\ requests[i].overtaken) => activeSessions' = activeSessions]_vars

\* C40: a load whose query failed leaves the list as it is and clears
\* loading; the interval stays scheduled and the channel stays as it was.
C40_FailedLoadKeepsList ==
  /\ [][\A i \in 1..MaxInflight :
          (Deliver(i) /\ requests[i].kind = "error") =>
              /\ activeSessions' = activeSessions
              /\ ~loading'
              /\ monMounted'
              /\ nextReload' = nextReload
              /\ monChannel' = monChannel]_vars
  /\ [](monMounted => (now <= nextReload /\ monChannel # "closed"))

\* the first load failed: nothing is listed although session 1 is in
\* progress, loading is cleared and the interval is due at 10 s
C40_Witness ==
  /\ monMounted
  /\ now = 0
  /\ ~loading
  /\ requests = <<>>
  /\ activeSessions = <<>>
  /\ candidate_sessions[1].status = "in_progress"
  /\ nextReload = reloadMs

=============================================================================
